---- MODULE Spec2Model ----
(***************************************************************************)
(* Connection/session core of cerbottana: the receive loop, the per-frame  *)
(* decode-and-dispatch task (Connection.parse_message), the outbound send  *)
(* path with its rate limiter (Connection.send) and the Room registry.     *)
(*                                                                         *)
(* Text is modelled as a sequence of one-character strings, so that        *)
(* split, indexing and normalisation are computed as the code computes     *)
(* them.  Time is counted in ticks of 0.05 s.                              *)
(***************************************************************************)
EXTENDS Integers, Sequences, FiniteSets, TLC

(* ------------------------------ bounds -------------------------------- *)

\* frames the transport delivers in one run
MaxFrames == 2

\* replies one handler invocation may send
MaxReplies == 1

\* ticks the clock may advance by single steps before it stops
MaxClock == 3

(* -------------------------- program constants ------------------------- *)

\* 0.1 s, the minimum spacing of Connection.send, in ticks of 0.05 s
SendInterval == 2

\* 7 * 60 s, the moderator-gap delay of try_modchat, in ticks of 0.05 s
GapDelay == 7 * 60 * 20

\* time() is far from 0 when the first frame arrives: 0.1 <= time() - 0
StartClock == SendInterval

(* ------------------------------ text ---------------------------------- *)

LowerChars ==
  <<"a", "b", "c", "d", "e", "f", "g", "h", "i", "j", "k", "l", "m",
    "n", "o", "p", "q", "r", "s", "t", "u", "v", "w", "x", "y", "z">>

UpperChars ==
  <<"A", "B", "C", "D", "E", "F", "G", "H", "I", "J", "K", "L", "M",
    "N", "O", "P", "Q", "R", "S", "T", "U", "V", "W", "X", "Y", "Z">>

DigitChars == <<"0", "1", "2", "3", "4", "5", "6", "7", "8", "9">>

Range(s) == {s[k] : k \in DOMAIN s}

\* str.lower() on one character
Lower(c) ==
  IF c \in Range(UpperChars)
  THEN LowerChars[CHOOSE k \in DOMAIN UpperChars : UpperChars[k] = c]
  ELSE c

\* a lowercase letter or a digit
IsAlnum(c) == c \in Range(LowerChars) \cup Range(DigitChars)

\* utils.to_room_id: the lowercase, alphanumeric-only projection
to_room_id(s) == SelectSeq([k \in DOMAIN s |-> Lower(s[k])], IsAlnum)

\* str.split(sep) for a one-character separator: the pieces between the
\* separators, one more than there are separators (never an empty list)
Split(s, sep) ==
  LET seps == {k \in DOMAIN s : s[k] = sep}
      \* the position of the j-th separator; 0 and Len(s) + 1 at the ends
      pos(j) == IF j = 0 THEN 0
                ELSE IF j > Cardinality(seps) THEN Len(s) + 1
                ELSE CHOOSE k \in seps : Cardinality({x \in seps : x <= k}) = j
  IN [j \in 1..(Cardinality(seps) + 1) |-> SubSeq(s, pos(j - 1) + 1, pos(j) - 1)]

\* s[from:] of Python, from counted from 0
Tail2(s, from) == SubSeq(s, from + 1, Len(s))

\* s occurs in msg at position k (1-based)
OccursAt(msg, s, k) ==
  /\ k >= 1
  /\ k + Len(s) - 1 <= Len(msg)
  /\ SubSeq(msg, k, k + Len(s) - 1) = s

(* --------------------------- configuration ---------------------------- *)

\* os.environ['ROOMS'].split(','): the configured rooms
ROOMS == {<<"l", "o", "b", "b", "y">>}

\* the text of the elevate-moderation command
ModchatCmd == <<"/", "m", "o", "d", "c", "h", "a", "t", " ", "+">>

\* the phrase of the free-text modchat announcement
SetModchat == <<" ", "s", "e", "t", " ", "m", "o", "d", "c", "h", "a", "t", " ", "t", "o", " ">>

\* the head of the modchat error record
ErrModchat == <<"|", "e", "r", "r", "o", "r", "|", "M", "o", "d", "c", "h", "a", "t", " ", "i", "s", " ", "a", "l", "r", "e", "a", "d", "y", " ", "s", "e", "t", " ", "t", "o", " ">>

\* Connection.handlers: the dict literal, as its (command, handler) items
HandlerItems ==
  {
    <<<<"i", "n", "i", "t">>, "init">>,
    <<<<"t", "i", "t", "l", "e">>, "title">>,
    <<<<"u", "s", "e", "r", "s">>, "users">>,
    <<<<"j", "o", "i", "n">>, "join">>,
    <<<<"j">>, "join">>,
    <<<<"J">>, "join">>,
    <<<<"l", "e", "a", "v", "e">>, "leave">>,
    <<<<"l">>, "leave">>,
    <<<<"L">>, "leave">>,
    <<<<"n", "a", "m", "e">>, "name">>,
    <<<<"n">>, "name">>,
    <<<<"N">>, "name">>,
    <<<<"c", "h", "a", "t">>, "chat">>,
    <<<<"c">>, "chat">>,
    <<<<":">>, "server_timestamp">>,
    <<<<"c", ":">>, "timestampchat">>,
    <<<<"p", "m">>, "pm">>,
    <<<<"c", "h", "a", "l", "l", "s", "t", "r">>, "challstr">>,
    <<<<"u", "p", "d", "a", "t", "e", "u", "s", "e", "r">>, "updateuser">>,
    <<<<"f", "o", "r", "m", "a", "t", "s">>, "formats">>,
    <<<<"q", "u", "e", "r", "y", "r", "e", "s", "p", "o", "n", "s", "e">>, "queryresponse">>,
    <<<<"t", "o", "u", "r", "n", "a", "m", "e", "n", "t">>, "tournament">>
  }

\* the dict built from the items: a command maps to one handler
handlers ==
  [c \in {it[1] : it \in HandlerItems} |->
     (CHOOSE it \in HandlerItems : it[1] = c)[2]]

\* handlers hooked on a command by the plugins (handler_wrapper)
PluginItems == {<<<<"t", "o", "u", "r", "n", "a", "m", "e", "n", "t">>, "tournament_create">>}

\* every (command, handler) pair the program registers
Registered == HandlerItems \cup PluginItems

\* the deny-list of init context
InitDenied == {<<"t", "o", "u", "r", "n", "a", "m", "e", "n", "t">>}

CmdInit == <<"i", "n", "i", "t">>

(* ------------------------------ frames -------------------------------- *)

FrameEmpty ==
  <<>>

FrameJoin ==
  <<">", "l", "o", "b", "b", "y", "\n", "|", "i", "n", "i", "t", "|", "c", "h", "a", "t", "\n", "|", "j", "o", "i", "n", "|", "A", "l", "i", "c", "e", "\n">>

FrameInitTour ==
  <<">", "l", "o", "b", "b", "y", "\n", "|", "i", "n", "i", "t", "|", "c", "h", "a", "t", "\n", "|", "t", "o", "u", "r", "n", "a", "m", "e", "n", "t", "|", "c", "r", "e", "a", "t", "e", "|", "o", "u", "\n", "(", "B", "o", "b", " ", "s", "e", "t", " ", "m", "o", "d", "c", "h", "a", "t", " ", "t", "o", " ", "+", ")", "\n", "|", "j", "|", "B", "o", "b">>

FrameLateInit ==
  <<">", "T", "o", "u", "r", "s", "\n", "|", "j", "|", "A", "l", "\n", "|", "i", "n", "i", "t", "|", "c", "h", "a", "t", "\n", "|", "t", "o", "u", "r", "n", "a", "m", "e", "n", "t", "|", "c", "r", "e", "a", "t", "e", "|", "o", "u", "\n", "|", "l", "|", "B", "o", "b">>

FrameChat ==
  <<"|", "c", "|", "h", "i">>

FrameTour ==
  <<">", "l", "o", "b", "b", "y", "\n", "|", "t", "o", "u", "r", "n", "a", "m", "e", "n", "t", "|", "c", "r", "e", "a", "t", "e", "|", "o", "u", "\n", "(", "B", "o", "b", " ", "s", "e", "t", " ", "m", "o", "d", "c", "h", "a", "t", " ", "t", "o", " ", "+", ")", "\n", "|", "e", "r", "r", "o", "r", "|", "M", "o", "d", "c", "h", "a", "t", " ", "i", "s", " ", "a", "l", "r", "e", "a", "d", "y", " ", "s", "e", "t", " ", "t", "o", " ", "o", "f", "f", ".", "\n", "|", "l", "|", "B", "o", "b">>

\* the frames the transport may deliver
Frames ==
  {FrameEmpty, FrameJoin, FrameInitTour, FrameLateInit, FrameChat, FrameTour}

(* ------------------------------- state -------------------------------- *)

VARIABLES
  clock,        \* time(), in ticks
  lastmessage,  \* Connection.lastmessage
  rooms,        \* the Room registry: roomid -> Room
  tasks,        \* the parse_message task of each received frame, in order
  ready,        \* the event loop's queue of tasks ready to run
  running,      \* the task holding the loop (0: the loop is idle)
  wire,         \* the frames written to the transport, in order
  log,          \* begin/end of every handler invocation, in order
  session,      \* the Connection's transport: its state, handle, outcome
  heap,         \* every Room object constructed, in order of construction
  reg,          \* conn.rooms: roomid -> the Room object registered for it
  conn_users,   \* conn.users: the userids registered
  idle,         \* User.idle of every user
  call,         \* the last call made on the Room model and what it returned
  startup,      \* the startup tasks: their tiers and how far each has got
  db            \* the uses of Database.get_session and the calls on the session

\* the state of the Room objects, apart from the frames, and of the startup
aux == <<heap, reg, conn_users, idle, call, startup, db>>

vars == <<clock, lastmessage, rooms, tasks, ready, running, wire, log,
          session, aux>>

\* no value: None
None == 0

\* Room.__init__: the attributes of a new Room
NewRoom ==
  [modchat |-> FALSE, no_mods_online |-> None, last_modchat_command |-> 0]

\* Room.get: the registered Room of the id, created and registered if absent
RoomGet(rs, room) ==
  LET roomid == to_room_id(room)
  IN IF roomid \in DOMAIN rs THEN rs ELSE rs @@ (roomid :> NewRoom)

\* no call of create_tour
NoTour == <<>>

\* a parse_message coroutine that has not run yet; born counts the tasks
\* that had failed when the frame was received
NewTask(message) ==
  [message |-> message, pc |-> "start", lines |-> <<>>, i |-> 0,
   init |-> FALSE, roomid |-> <<>>, handler |-> "", args |-> <<>>,
   replies |-> 0, payload |-> <<>>, issued |-> 0, now |-> 0, wake |-> 0,
   via |-> "", ret |-> "", minutes |-> 0, must_cancel |-> FALSE,
   tour |-> NoTour, queue |-> <<>>,
   born |-> Cardinality({t \in DOMAIN tasks : tasks[t].pc = "failed"})]

\* the handle of the open transport
Websocket == 1

\* Connection.__init__: no transport yet; no signal has been delivered
NewSession ==
  [state |-> "new", websocket |-> None, connects |-> 0,
   stopped |-> FALSE, fatal |-> FALSE, signals |-> 0, cancelling |-> FALSE]

\* Database.open: no session has been asked for yet
NoUse == [uses |-> <<>>, running |-> 0, trace |-> <<>>]

\* no startup task
NoStartup == [tiers |-> <<>>, skip |-> {}, testing |-> FALSE, tier |-> 1,
              st |-> <<>>]

\* the users of the Room model
Users == {"mod", "usr"}

\* no call has been made on the Room model
NoCall ==
  [op |-> "none", arg |-> <<>>, rank |-> "", obj |-> 0, warned |-> FALSE,
   before |-> None]

Init ==
  /\ clock = StartClock
  /\ lastmessage = 0
  /\ rooms = <<>>
  /\ tasks = <<>>
  /\ ready = <<>>
  /\ running = 0
  /\ wire = <<>>
  /\ log = <<>>
  /\ session = NewSession
  /\ heap = <<>>
  /\ reg = <<>>
  /\ conn_users = {}
  /\ idle = [u \in Users |-> FALSE]
  /\ call = NoCall
  /\ startup = NoStartup
  /\ db = NoUse

(* --------------------------- the event loop --------------------------- *)

\* run_until_complete(start_websocket()) is running: the transport is open
\* and the task of start_websocket has not been cancelled
Open == session.state = "open" /\ ~session.cancelling

\* start_websocket: websockets.connect succeeds, the handle is stored
Connect ==
  /\ session.state = "new"
  /\ session' = [session EXCEPT !.state = "open",
                                !.websocket = Websocket,
                                !.connects = session.connects + 1]
  /\ UNCHANGED <<clock, lastmessage, rooms, tasks, ready, running, wire, log>>
  /\ UNCHANGED aux

\* time passes while the loop is idle
Tick ==
  /\ UNCHANGED <<session, aux>>
  /\ running = 0
  /\ (IF clock >= GapDelay THEN clock - GapDelay ELSE clock) < StartClock + MaxClock
  /\ clock' = clock + 1
  /\ UNCHANGED <<lastmessage, rooms, tasks, ready, wire, log>>
  /\ UNCHANGED running

\* every received frame has been processed to its end
Quiescent ==
  /\ running = 0
  /\ ready = <<>>
  /\ \A t \in DOMAIN tasks : tasks[t].pc \in {"done", "failed", "cancelled"}

\* a long idle period between two frames: more than the moderator-gap delay
LongTick ==
  /\ UNCHANGED <<session, aux>>
  /\ Quiescent
  /\ clock < GapDelay
  /\ clock' = clock + GapDelay
  /\ UNCHANGED <<lastmessage, rooms, tasks, ready, running, wire, log>>

\* the new task is put at the head of the ready queue
RecvFrameFirst(message) ==
  /\ tasks' = Append(tasks, NewTask(message))
  /\ ready' = <<Len(tasks) + 1>> \o ready

\* start_websocket: recv() returns a frame, ensure_future schedules its task
RecvFrame(message) ==
  /\ tasks' = Append(tasks, NewTask(message))
  /\ ready' = Append(ready, Len(tasks) + 1)

\* the receive loop awaits the task of a frame before the next recv()
CanRecvAwaited == running = 0 /\ \A t \in DOMAIN tasks : tasks[t].pc = "done"

\* the receive loop awaits only recv(): it reads the next frame whenever
\* the loop is free, whatever the state of the tasks it has scheduled
CanRecv == running = 0

Recv ==
  /\ UNCHANGED <<session, aux>>
  /\ Open
  /\ CanRecv
  /\ Len(tasks) < MaxFrames
  /\ \E message \in Frames : RecvFrame(message)
  /\ UNCHANGED <<clock, lastmessage, rooms, running, wire, log>>

\* the loop runs the task at the head of its ready queue
Schedule ==
  /\ UNCHANGED <<session, aux>>
  /\ Open
  /\ running = 0
  /\ ready /= <<>>
  /\ running' = Head(ready)
  /\ ready' = Tail(ready)
  /\ UNCHANGED <<clock, lastmessage, rooms, tasks, wire, log>>

(* ------------------------- the outbound helpers ----------------------- *)

\* a helper that writes its payload to the transport itself
CallSendDirect(T, payload, via, ret) ==
  /\ tasks' = [tasks EXCEPT ![running] =
                  [T EXCEPT !.pc = ret, !.payload = payload, !.via = via]]
  /\ wire' = Append(wire, [task |-> running, line |-> T.i, payload |-> payload,
                           via |-> via, issued |-> clock, at |-> clock])
  /\ UNCHANGED <<lastmessage, running, ready>>

\* the running task, in state T, calls Connection.send(payload) and will
\* resume at ret
CallSend(T, payload, via, ret) ==
  /\ tasks' = [tasks EXCEPT ![running] =
                  [T EXCEPT !.pc = "send", !.payload = payload,
                            !.via = via, !.ret = ret]]
  /\ UNCHANGED <<wire, lastmessage, running, ready>>

\* Connection.send_message: '{}|{}'.format(room, message)
send_message(room, message) == room \o <<"|">> \o message

\* utils.to_user_id: the lowercase, alphanumeric-only projection
to_user_id(user) == to_room_id(user)

\* Connection.send_pm: '|/w {}, {}'.format(utils.to_user_id(user), message)
send_pm(user, message) ==
  <<"|", "/", "w", " ">> \o to_user_id(user) \o <<",", " ">> \o message

\* a Room.send that escapes nothing
RoomSendRaw(roomid, message, escape) == roomid \o <<"|">> \o message

\* Room.send: f"{self.roomid}|{message}", a leading '/' or '!' escaped
RoomSend(roomid, message, escape) ==
  LET escaped == IF escape /\ message[1] = "/" THEN <<"/">> \o message
                 ELSE IF escape /\ message[1] = "!" THEN <<" ">> \o message
                 ELSE message
  IN roomid \o <<"|">> \o escaped

\* the limiter's test of Connection.send
Limited(now, last) == now - last < SendInterval

\* Connection.send up to its first suspension: read the clock, test, sleep;
\* a task whose cancellation was requested while it ran is cancelled at the
\* suspension
SendEnter ==
  /\ UNCHANGED <<session, aux>>
  /\ running /= 0
  /\ tasks[running].pc = "send"
  /\ IF Limited(clock, lastmessage)
     THEN /\ tasks' = [tasks EXCEPT ![running].pc =
                                      IF tasks[running].must_cancel
                                      THEN "cancelled" ELSE "sleep",
                                    ![running].issued = clock,
                                    ![running].now = clock,
                                    ![running].wake = clock + SendInterval]
          /\ running' = 0
     ELSE /\ tasks' = [tasks EXCEPT ![running].pc = "write",
                                    ![running].issued = clock,
                                    ![running].now = clock]
          /\ UNCHANGED running
  /\ UNCHANGED <<clock, lastmessage, rooms, ready, wire, log>>

\* the tasks suspended in asyncio.sleep
Sleeping == {t \in DOMAIN tasks : tasks[t].pc = "sleep"}

\* a timer that never fires
DueNever(T, now) == FALSE

\* the timer of asyncio.sleep(0.1) has run out
Due(T, now) == now >= T.wake

\* asyncio.sleep(0.1) is over: the timer of the earliest deadline fires
Wake ==
  /\ UNCHANGED <<session, aux>>
  /\ Open
  /\ running = 0
  /\ \E t \in Sleeping :
       /\ Due(tasks[t], clock)
       /\ \A u \in Sleeping : tasks[t].wake <= tasks[u].wake
       /\ tasks' = [tasks EXCEPT ![t].pc = "write"]
       /\ ready' = Append(ready, t)
  /\ UNCHANGED <<clock, lastmessage, rooms, running, wire, log>>

\* the record of one write to the transport
Written(T, t) ==
  [task |-> t, line |-> T.i, payload |-> T.payload, via |-> T.via,
   issued |-> T.issued, at |-> clock]

\* Connection.send after the limiter: record the time, write the frame;
\* websocket.send may suspend the task (drain) or return at once
SendWrite ==
  /\ UNCHANGED <<session, aux>>
  /\ running /= 0
  /\ tasks[running].pc = "write"
  /\ lastmessage' = tasks[running].now
  /\ wire' = Append(wire, Written(tasks[running], running))
  /\ \E suspend \in BOOLEAN :
       IF suspend
       THEN IF tasks[running].must_cancel
            THEN /\ tasks' = [tasks EXCEPT ![running].pc = "cancelled"]
                 /\ running' = 0
                 /\ UNCHANGED ready
            ELSE /\ tasks' = [tasks EXCEPT ![running].pc = tasks[running].ret]
                 /\ running' = 0
                 /\ ready' = Append(ready, running)
       ELSE /\ tasks' = [tasks EXCEPT ![running].pc = tasks[running].ret]
            /\ UNCHANGED <<running, ready>>
  /\ UNCHANGED <<clock, rooms, log>>

(* --------------------------- parse_message ---------------------------- *)

\* the task returns: the loop is free again
Return ==
  /\ tasks' = [tasks EXCEPT ![running].pc = "done"]
  /\ running' = 0
  /\ UNCHANGED <<wire, lastmessage, ready>>

\* the exception is dropped: parse_message goes on with the next line
RaiseGoesOn ==
  /\ tasks' = [tasks EXCEPT ![running].pc = "loop",
                             ![running].i = tasks[running].i + 1]
  /\ UNCHANGED <<wire, lastmessage, running, ready>>

\* the exception leaves the coroutine: its task is over, the loop is free
Raise ==
  /\ tasks' = [tasks EXCEPT ![running].pc = "failed"]
  /\ running' = 0
  /\ UNCHANGED <<wire, lastmessage, ready>>

\* a try_modchat that does not wait for the gap to last
ModchatDueAtOnce(room, inWindow) ==
  /\ ~room.modchat
  /\ room.no_mods_online /= None
  /\ inWindow

\* Connection.try_modchat: the conditions under which '/modchat +' is sent
ModchatDue(room, inWindow) ==
  /\ ~room.modchat
  /\ room.no_mods_online /= None
  /\ inWindow
  /\ room.no_mods_online + GapDelay < clock

\* the room named by the frame's header line ('' without a header)
HeaderRoom(message) ==
  IF message[1] = ">" THEN Split(message, "\n")[1] ELSE <<>>

\* no frame is taken for an empty one
NoMessageNever(message) == FALSE

\* line 72: not message
NoMessage(message) == message = <<>>

\* parse_message up to try_modchat: the empty frame returns at once (past
\* that test, message[0] of an empty frame raises IndexError); the room id
ParseStart ==
  /\ UNCHANGED <<session, aux>>
  /\ running /= 0
  /\ tasks[running].pc = "start"
  /\ LET T == tasks[running]
         message == T.message
     IN IF NoMessage(message)
        THEN Return
        ELSE IF message = <<>>
        THEN Raise
        ELSE LET roomid == to_room_id(HeaderRoom(message))
             IN /\ tasks' = [tasks EXCEPT ![running] =
                               [T EXCEPT !.roomid = roomid,
                                         !.lines = Split(message, "\n"),
                                         !.i = 1,
                                         !.init = FALSE,
                                         !.pc = IF roomid \in ROOMS
                                                THEN "modchat" ELSE "loop"]]
                /\ UNCHANGED <<wire, lastmessage, running, ready>>
  /\ UNCHANGED <<clock, rooms, log>>

\* the local time of day in Europe/Rome, in minutes: around the two ends
\* of the window
Minutes == {29, 30, 479, 480}

\* a window that is closed at 08:00
InWindowClosed(minutes) == 30 <= minutes /\ minutes <= 8 * 60

\* 00:30 - 08:00
InWindow(minutes) == 30 <= minutes /\ minutes < 8 * 60

\* try_modchat of a configured room, before the lines are read; the local
\* time of day in Europe/Rome is an input, which the task keeps when the
\* command is sent
TryModchat ==
  /\ UNCHANGED <<session, aux>>
  /\ running /= 0
  /\ tasks[running].pc = "modchat"
  /\ LET roomid == tasks[running].roomid
     IN \E minutes \in Minutes :
          /\ rooms' = RoomGet(rooms, roomid)
          /\ IF ModchatDue(rooms'[roomid], InWindow(minutes))
             THEN CallSend([tasks[running] EXCEPT !.minutes = minutes],
                           send_message(roomid, ModchatCmd),
                           "try_modchat", "loop")
             ELSE /\ tasks' = [tasks EXCEPT ![running].pc = "loop"]
                  /\ UNCHANGED <<wire, lastmessage, running, ready>>
  /\ UNCHANGED <<clock, log>>

\* the group of re.match(r'^\(.+ set modchat to (.*)\)$', msg), greedy:
\* <<group>> when the line matches, <<>> when it does not
MatchSetModchat(msg) ==
  LET n == Len(msg)
      ks == {k \in 3..n : OccursAt(msg, SetModchat, k)
                          /\ k + Len(SetModchat) <= n}
  IN IF n >= 1 /\ msg[1] = "(" /\ msg[n] = ")" /\ ks /= {}
     THEN LET k == CHOOSE x \in ks : \A y \in ks : y <= x
          IN <<SubSeq(msg, k + Len(SetModchat), n - 1)>>
     ELSE <<>>

\* the group of re.match(r'^\|error\|Modchat is already set to (.*)\.$', msg)
MatchErrModchat(msg) ==
  LET n == Len(msg)
  IN IF OccursAt(msg, ErrModchat, 1) /\ n > Len(ErrModchat) /\ msg[n] = "."
     THEN <<SubSeq(msg, Len(ErrModchat) + 1, n - 1)>>
     ELSE <<>>

\* the ranks of at least voice (utils.is_voice)
VoiceRanks == {"+", "%", "@", "*", "#", "&", "~"}

\* a scan that knows the 'set modchat to' line only
ScanModchatSetOnly(rs, roomid, msg) ==
  IF roomid \in ROOMS
  THEN LET match == MatchSetModchat(msg)
       IN IF match /= <<>>
          THEN LET rs1 == RoomGet(rs, roomid)
               IN [rs1 EXCEPT ![roomid].modchat =
                     Len(match[1]) = 1 /\ match[1][1] \in VoiceRanks]
          ELSE rs
  ELSE rs

\* lines 87-95: a modchat line of a configured room sets the Room's flag
ScanModchat(rs, roomid, msg) ==
  IF roomid \in ROOMS
  THEN LET m1 == MatchSetModchat(msg)
           match == IF m1 /= <<>> THEN m1 ELSE MatchErrModchat(msg)
       IN IF match /= <<>>
          THEN LET rs1 == RoomGet(rs, roomid)
               IN [rs1 EXCEPT ![roomid].modchat =
                     Len(match[1]) = 1 /\ match[1][1] \in VoiceRanks]
          ELSE rs
  ELSE rs

\* the scan placed after the test of line 97: only structured lines are
\* scanned
ScannedAfterSkip(rs, roomid, msg) ==
  IF msg = <<>> \/ msg[1] /= "|" THEN rs ELSE ScanModchat(rs, roomid, msg)

\* the scan comes first in the loop body: every line is scanned, before the
\* test that skips the lines that are not structured
Scanned(rs, roomid, msg) == ScanModchat(rs, roomid, msg)

\* lines 104-105: an init record puts the rest of the frame in init context
InitAfter(init, command) == init \/ command = CmdInit

\* the deny-list is never applied
StopsFrameNever(init, command) == FALSE

\* lines 107-108: a denied command in init context ends the frame
StopsFrame(init, command) == init /\ command \in InitDenied

\* line 110: the handlers a record is dispatched to
HandlersFor(command) ==
  IF command \in DOMAIN handlers THEN <<handlers[command]>> ELSE <<>>

\* the command name passed along with the arguments, *parts[1:]
HandlerArgsFromCommand(parts) == Tail2(parts, 1)

\* line 111: the positional arguments of the handler, *parts[2:]
HandlerArgs(parts) == Tail2(parts, 2)

\* the handler is started and not awaited
DispatchNoAwait(T) == [T EXCEPT !.pc = "loop", !.i = T.i + 1]

\* line 111: parse_message awaits the handler it invokes
Dispatch(T) == [T EXCEPT !.pc = "handler"]

\* a handler invocation, as the log records its begin and its end
Invocation(t, T, ev) ==
  [task |-> t, line |-> T.i, handler |-> T.handler, roomid |-> T.roomid,
   args |-> T.args, ev |-> ev]

\* one iteration of the loop over message.split('\n'), up to the handler
ParseLine ==
  /\ UNCHANGED <<session, aux>>
  /\ running /= 0
  /\ tasks[running].pc = "loop"
  /\ LET T == tasks[running]
     IN IF T.i > Len(T.lines)
        THEN Return /\ UNCHANGED <<rooms, log>>
        ELSE LET msg == T.lines[T.i]
             IN /\ rooms' = Scanned(rooms, T.roomid, msg)
                /\ IF msg = <<>> \/ msg[1] /= "|"
                   THEN /\ tasks' = [tasks EXCEPT ![running].i = T.i + 1]
                        /\ UNCHANGED <<wire, lastmessage, running, ready, log>>
                   ELSE LET parts == Split(msg, "|")
                            command == parts[2]
                            init == InitAfter(T.init, command)
                        IN IF StopsFrame(init, command)
                           THEN Return /\ UNCHANGED log
                           ELSE IF HandlersFor(command) /= <<>>
                           THEN LET T1 == [T EXCEPT
                                             !.init = init,
                                             !.handler = HandlersFor(command)[1],
                                             !.args = HandlerArgs(parts)]
                                IN /\ tasks' = [tasks EXCEPT ![running] = Dispatch(T1)]
                                   /\ log' = Append(log, Invocation(running, T1, "begin"))
                                   /\ UNCHANGED <<wire, lastmessage, running, ready>>
                           ELSE /\ tasks' = [tasks EXCEPT ![running].i = T.i + 1,
                                                          ![running].init = init]
                                /\ UNCHANGED <<wire, lastmessage, running, ready, log>>
  /\ UNCHANGED clock

(* ----------------------------- handlers ------------------------------- *)

\* the text of a handler's reply
ReplyText == <<"!", "o", "k">>

\* the reply of a handler: the helper it answers through and the payload
\* the helper formats
Reply(T) ==
  CASE T.handler = "leave" ->
         [via |-> "send_pm", payload |-> send_pm(T.args[1], ReplyText)]
    [] T.handler = "init" ->
         [via |-> "Room.send", payload |-> RoomSend(T.roomid, ReplyText, TRUE)]
    [] OTHER ->
         [via |-> "send_message", payload |-> send_message(T.roomid, ReplyText)]

\* what a handler's membership update does to the moderator gap
HandlerEffects(handler) ==
  CASE handler = "join" -> {"none", "nogap"}
    [] handler = "leave" -> {"none", "gap"}
    [] OTHER -> {"none"}

\* a handler's use of the registry: it gets the Room of its frame through
\* Room.get and updates the membership, which may begin or end the gap
HandlerRooms(rs, roomid, effect) ==
  IF roomid = <<>> THEN rs
  ELSE LET rs1 == RoomGet(rs, roomid)
       IN CASE effect = "gap" ->
                 [rs1 EXCEPT ![roomid].no_mods_online =
                    IF @ = None THEN clock ELSE @]
            [] effect = "nogap" ->
                 [rs1 EXCEPT ![roomid].no_mods_online = None]
            [] OTHER -> rs1

\* the body of a handler up to its replies
HandlerRun ==
  /\ UNCHANGED <<session, aux>>
  /\ running /= 0
  /\ tasks[running].pc = "handler"
  /\ LET T == tasks[running]
     IN \E k \in 0..MaxReplies, effect \in HandlerEffects(T.handler) :
          /\ rooms' = HandlerRooms(rooms, T.roomid, effect)
          /\ tasks' = [tasks EXCEPT ![running].pc = "reply",
                                    ![running].replies = k]
  /\ UNCHANGED <<clock, lastmessage, ready, running, wire, log>>

\* a handler replies through a helper, or returns to parse_message
HandlerReply ==
  /\ UNCHANGED <<session, aux>>
  /\ running /= 0
  /\ tasks[running].pc = "reply"
  /\ LET T == tasks[running]
     IN IF T.replies > 0
        THEN /\ CallSend([T EXCEPT !.replies = T.replies - 1],
                         Reply(T).payload, Reply(T).via, "reply")
             /\ UNCHANGED log
        ELSE /\ tasks' = [tasks EXCEPT ![running].pc = "loop",
                                       ![running].i = T.i + 1]
             /\ log' = Append(log, Invocation(running, T, "end"))
             /\ UNCHANGED <<wire, lastmessage, running, ready>>
  /\ UNCHANGED <<clock, rooms>>

(* --------------------------- the Room objects ------------------------- *)

\* the Room objects that may be constructed
MaxRooms == 2

\* the room names given to Room.get
RoomNames ==
  {<<"L", "o", "b", "b", "y">>, <<"l", "o", "b", "b", "y">>,
   <<"T", "o", "u", "r", "s">>}

\* the room ids given to Room(conn, roomid)
RoomIds == {to_room_id(room) : room \in RoomNames}

\* the rank arguments of add_user: none, regular user, driver
RankArgs == {"", " ", "%"}

\* the ranks of at least driver (User.has_role("driver", room,
\* ignore_grole=True))
DriverRanks == {"%", "@", "*", "#", "&", "~"}

\* Room.__init__, lines 50-66: the attributes of the new object
RoomObject(roomid) ==
  [roomid |-> roomid, users |-> <<>>, dynamic_buffer |-> <<>>,
   modchat |-> NewRoom.modchat,
   no_mods_online |-> NewRoom.no_mods_online,
   last_modchat_command |-> NewRoom.last_modchat_command]

\* a constructor that leaves a registered Room in the registry
RoomInitKeep(h, r, roomid) ==
  [heap |-> Append(h, RoomObject(roomid)),
   reg |-> r @@ (roomid :> Len(h) + 1),
   warned |-> roomid \in DOMAIN r]

\* Room.__init__, lines 68-73: the new object takes the registry entry of
\* its id, with a warning when the id was registered
RoomInit(h, r, roomid) ==
  [heap |-> Append(h, RoomObject(roomid)),
   reg |-> (roomid :> Len(h) + 1) @@ r,
   warned |-> roomid \in DOMAIN r]

\* a Room.get that constructs a Room on every call
Room_getAlways(h, r, room) ==
  LET roomid == to_room_id(room)
      c == RoomInit(h, r, roomid)
  IN [heap |-> c.heap, reg |-> c.reg, ret |-> c.reg[roomid],
      warned |-> c.warned]

\* Room.get: the object registered for the normalized name, constructed
\* first when there is none
Room_get(h, r, room) ==
  LET roomid == to_room_id(room)
  IN IF roomid \notin DOMAIN r
     THEN LET c == RoomInit(h, r, roomid)
              r1 == (roomid :> Len(c.heap)) @@ c.reg
          IN [heap |-> c.heap, reg |-> r1, ret |-> r1[roomid],
              warned |-> c.warned]
     ELSE [heap |-> h, reg |-> r, ret |-> r[roomid], warned |-> FALSE]

\* user in self._users
IsMember(us, user) == \E k \in DOMAIN us : us[k][1] = user

\* self._users[user]
RankOf(us, user) == us[CHOOSE k \in DOMAIN us : us[k][1] = user][2]

\* self._users[user] = rank: a member keeps its place, a new one comes last
SetRank(us, user, rank) ==
  IF IsMember(us, user)
  THEN [k \in DOMAIN us |-> IF us[k][1] = user THEN <<user, rank>> ELSE us[k]]
  ELSE Append(us, <<user, rank>>)

\* the loop of _check_no_mods_online over the members from position k on,
\* with v the value of no_mods_online so far
RECURSIVE CheckLoop(_, _, _, _, _)
CheckLoop(us, k, v, idl, now) ==
  IF k > Len(us) THEN v
  ELSE IF idl[us[k][1]] THEN CheckLoop(us, k + 1, v, idl, now)
  ELSE IF us[k][2] \in DriverRanks THEN None
  ELSE CheckLoop(us, k + 1, now, idl, now)

\* a _check_no_mods_online that recomputes a gap that is already open
check_no_mods_online_again(room, idl, now) ==
  [room EXCEPT !.no_mods_online = CheckLoop(room.users, 1, @, idl, now)]

\* Room._check_no_mods_online
check_no_mods_online(room, idl, now) ==
  IF room.no_mods_online /= None THEN room
  ELSE [room EXCEPT !.no_mods_online = CheckLoop(room.users, 1, @, idl, now)]

\* an add_user that recomputes the gap for every driver
add_user_check(room, user, rank, idl, now) ==
  LET r == IF rank = ""
           THEN IF IsMember(room.users, user)
                THEN RankOf(room.users, user) ELSE " "
           ELSE rank
      room1 == [room EXCEPT !.users = SetRank(@, user, r)]
  IN IF r \in DriverRanks
     THEN check_no_mods_online(room1, idl, now)
     ELSE room1

\* an add_user that stores the unranked rank whenever no rank is given
add_user_reset(room, user, rank, idl, now) ==
  LET r == IF rank = "" THEN " " ELSE rank
      room1 == [room EXCEPT !.users = SetRank(@, user, r)]
  IN IF r \in DriverRanks
     THEN IF ~idl[user]
          THEN [room1 EXCEPT !.no_mods_online = None]
          ELSE check_no_mods_online(room1, idl, now)
     ELSE room1

\* Room.add_user, lines 99-108
add_user(room, user, rank, idl, now) ==
  LET r == IF rank = ""
           THEN IF IsMember(room.users, user)
                THEN RankOf(room.users, user) ELSE " "
           ELSE rank
      room1 == [room EXCEPT !.users = SetRank(@, user, r)]
  IN IF r \in DriverRanks
     THEN IF ~idl[user]
          THEN [room1 EXCEPT !.no_mods_online = None]
          ELSE check_no_mods_online(room1, idl, now)
     ELSE room1

\* Room.remove_user
remove_user(room, user, idl, now) ==
  IF IsMember(room.users, user)
  THEN check_no_mods_online(
         [room EXCEPT !.users = SelectSeq(@, LAMBDA m : m[1] /= user)],
         idl, now)
  ELSE room

\* the users that some registered Room holds as members
Held(h, r) ==
  UNION {{m[1] : m \in Range(h[r[k]].users)} : k \in DOMAIN r}

\* conn.users holds its users weakly: an entry lasts as long as a Room
\* holds the user in its members
WeakRegistry(cu, h, r) == cu \cap Held(h, r)

\* an add_user that registers nobody
RegisterUserNever(cu, user) == cu

\* Room.add_user, lines 110-112: a user id not yet in conn.users is added
RegisterUser(cu, user) == IF user \notin cu THEN cu \cup {user} ELSE cu

\* a call of Room.get
RoomGetCall ==
  /\ \E room \in RoomNames :
       LET g == Room_get(heap, reg, room)
       IN /\ Len(g.heap) <= MaxRooms
          /\ heap' = g.heap
          /\ reg' = g.reg
          /\ call' = [op |-> "get", arg |-> room, rank |-> "", obj |-> g.ret,
                      warned |-> g.warned, before |-> None]
  /\ UNCHANGED <<conn_users, idle>>
  /\ UNCHANGED <<clock, lastmessage, rooms, tasks, ready, running, wire, log,
                 session, startup, db>>

\* a direct construction Room(conn, roomid)
RoomNewCall ==
  /\ Len(heap) < MaxRooms
  /\ \E roomid \in RoomIds :
       LET c == RoomInit(heap, reg, roomid)
       IN /\ heap' = c.heap
          /\ reg' = c.reg
          /\ conn_users' = WeakRegistry(conn_users, c.heap, c.reg)
          /\ call' = [op |-> "new", arg |-> roomid, rank |-> "",
                      obj |-> Len(c.heap),
                      warned |-> c.warned, before |-> None]
  /\ UNCHANGED idle
  /\ UNCHANGED <<clock, lastmessage, rooms, tasks, ready, running, wire, log,
                 session, startup, db>>

\* a call of add_user on a registered Room; the caller has set the user's
\* idle state from the frame it handles
AddUserCall ==
  /\ \E roomid \in DOMAIN reg, user \in Users, rank \in RankArgs,
        away \in BOOLEAN :
       /\ idle' = [idle EXCEPT ![user] = away]
       /\ heap' = [heap EXCEPT ![reg[roomid]] =
                     add_user(@, user, rank, idle', clock)]
       /\ conn_users' = WeakRegistry(RegisterUser(conn_users, user), heap', reg)
       /\ call' = [op |-> "add_user", arg |-> user, rank |-> rank,
                   obj |-> reg[roomid],
                   warned |-> FALSE,
                   before |-> heap[reg[roomid]].no_mods_online]
  /\ UNCHANGED reg
  /\ UNCHANGED <<clock, lastmessage, rooms, tasks, ready, running, wire, log,
                 session, startup, db>>

\* a call of remove_user on a registered Room
RemoveUserCall ==
  /\ \E roomid \in DOMAIN reg, user \in Users :
       /\ heap' = [heap EXCEPT ![reg[roomid]] =
                     remove_user(@, user, idle, clock)]
       /\ call' = [op |-> "remove_user", arg |-> user, rank |-> "",
                   obj |-> reg[roomid],
                   warned |-> FALSE,
                   before |-> heap[reg[roomid]].no_mods_online]
       /\ conn_users' = WeakRegistry(conn_users, heap', reg)
  /\ UNCHANGED <<reg, idle>>
  /\ UNCHANGED <<clock, lastmessage, rooms, tasks, ready, running, wire, log,
                 session, startup, db>>

\* the first call of Room.get, which constructs the Room
RoomFirstGet ==
  /\ heap = <<>>
  /\ RoomGetCall

\* one Room under any sequence of add_user and remove_user, as time passes
NextRoom ==
  \/ Tick
  \/ RoomFirstGet
  \/ AddUserCall
  \/ RemoveUserCall

SpecRoom == Init /\ [][NextRoom]_vars

\* the registry under any sequence of Room.get and Room(conn, roomid), the
\* Rooms taking members in between
NextRegistry ==
  \/ RoomGetCall
  \/ RoomNewCall
  \/ AddUserCall

SpecRegistry == Init /\ [][NextRegistry]_vars

\* the lines appended to a buffer
MaxLines == 22

\* deque(maxlen=20)
BufferLen == 20

\* a deque without maxlen
AppendUnbounded(buf, line) == Append(buf, line)

\* dynamic_buffer.append(line) on deque(maxlen=20): a full deque drops its
\* oldest line
BufferAppend(buf, line) ==
  IF Len(buf) >= BufferLen
  THEN Append(Tail(buf), line)
  ELSE Append(buf, line)

\* the number of lines appended to the buffer so far: the lines are
\* numbered in arrival order
Arrived(buf) == IF buf = <<>> THEN 0 ELSE buf[Len(buf)]

\* a raw line of a Room's frame is appended to the Room's buffer
BufferAppendCall ==
  /\ \E roomid \in DOMAIN reg :
       LET buf == heap[reg[roomid]].dynamic_buffer
       IN /\ Arrived(buf) < MaxLines
          /\ heap' = [heap EXCEPT ![reg[roomid]].dynamic_buffer =
                        BufferAppend(buf, Arrived(buf) + 1)]
          /\ call' = [op |-> "append", arg |-> Arrived(buf) + 1, rank |-> "",
                      obj |-> reg[roomid], warned |-> FALSE, before |-> None]
  /\ UNCHANGED <<reg, conn_users, idle>>
  /\ UNCHANGED <<clock, lastmessage, rooms, tasks, ready, running, wire, log,
                 session, startup, db>>

\* the buffers of the Rooms as lines arrive
NextBuffer ==
  \/ RoomGetCall
  \/ BufferAppendCall

SpecBuffer == Init /\ [][NextBuffer]_vars

\* the longest message given to Room.send
MaxMessage == 3

\* the messages given to Room.send: the texts of '/', '!' and 'a'
Messages ==
  UNION {[1..n -> {"/", "!", "a"}] : n \in 1..MaxMessage}

\* a call of Room.send on a registered Room: the text goes to
\* Connection.send, which writes it to the transport
RoomSendCall ==
  /\ \E roomid \in DOMAIN reg, message \in Messages, escape \in BOOLEAN :
       LET out == RoomSend(heap[reg[roomid]].roomid, message, escape)
           T == [NewTask(<<>>) EXCEPT !.payload = out, !.via = "Room.send"]
       IN call' = [op |-> "send", arg |-> message, rank |-> "",
                   obj |-> reg[roomid], warned |-> FALSE, before |-> None,
                   escape |-> escape, out |-> out,
                   written |-> Written(T, 0).payload]
  /\ UNCHANGED <<heap, reg, conn_users, idle>>
  /\ UNCHANGED <<clock, lastmessage, rooms, tasks, ready, running, wire, log,
                 session, startup, db>>

\* the texts a Room sends
NextEscape ==
  \/ RoomGetCall
  \/ RoomSendCall

SpecEscape == Init /\ [][NextEscape]_vars

\* several Rooms, got through Room.get, under any sequence of add_user and
\* remove_user
NextUsers ==
  \/ RoomGetCall
  \/ AddUserCall
  \/ RemoveUserCall

SpecUsers == Init /\ [][NextUsers]_vars

(* ------------------------------ failures ------------------------------ *)

\* the exceptions the transport raises
TransportErrors == {"ConnectionClosed", "OSError"}

\* an except clause that names the closed connection only
CaughtClosedOnly(kind) == kind = "ConnectionClosed"

\* the except clause of start_websocket
Caught(kind) == kind \in {"ConnectionClosed", "OSError"}

\* websockets.connect or recv() raises: a caught exception stops the server
\* and start_websocket returns, any other leaves run_until_complete; either
\* way the event loop stops with the tasks it still holds
TransportError ==
  /\ session.state \in {"new", "open"}
  /\ running = 0
  /\ \E kind \in TransportErrors :
       session' = [session EXCEPT !.state = "closed",
                                  !.stopped = Caught(kind),
                                  !.fatal = ~Caught(kind)]
  /\ UNCHANGED <<clock, lastmessage, rooms, tasks, ready, running, wire, log>>
  /\ UNCHANGED aux

\* the receive loop awaits the task: its exception is raised in
\* start_websocket, which does not catch it
RaisedInLoop(s) == [s EXCEPT !.state = "closed", !.fatal = TRUE]

\* ensure_future: the exception of parse_message is stored in its task,
\* which nothing awaits
RaisedInTask(s) == s

\* a handler raises: the exception goes up through parse_message, which
\* has no try around the call
HandlerRaise ==
  /\ running /= 0
  /\ tasks[running].pc = "handler"
  /\ Raise
  /\ log' = Append(log, Invocation(running, tasks[running], "raise"))
  /\ session' = RaisedInTask(session)
  /\ UNCHANGED <<clock, rooms>>
  /\ UNCHANGED aux

(* -------------------------- the specification ------------------------- *)

Next ==
  \/ Connect
  \/ Tick
  \/ LongTick
  \/ Recv
  \/ Schedule
  \/ ParseStart
  \/ TryModchat
  \/ ParseLine
  \/ HandlerRun
  \/ HandlerReply
  \/ SendEnter
  \/ Wake
  \/ SendWrite

Spec == Init /\ [][Next]_vars

\* the session with the failures of the transport and of the handlers
NextFail ==
  \/ Next
  \/ TransportError
  \/ HandlerRaise

SpecFail == Init /\ [][NextFail]_vars

(* ------------------------------- startup ------------------------------ *)

\* the priority tiers of the startup tasks
Tiers == 1..5

\* the startup tasks of the lists that are enumerated
MaxStartup == 3

\* the list of the example: eight tasks in five tiers
TierExample == <<1, 1, 2, 3, 3, 3, 4, 5>>

\* the registered startup tasks, as the tier of each: the example, and each
\* list of MaxStartup tasks in any registration order
TierLists == {TierExample} \cup [1..MaxStartup -> Tiers]

\* a task marked "skip under test harness" is left out in test mode
Omitted(su, i) == su.testing /\ i \in su.skip

\* the tasks of a tier that are run
TierTasks(su, tier) ==
  {i \in DOMAIN su.tiers : su.tiers[i] = tier /\ ~Omitted(su, i)}

\* every task is taken to be of the tier that runs
MayBeginAny(su, i) == ~Omitted(su, i) /\ su.st[i] = "pending"

\* the tasks of the tier that runs are started together
MayBegin(su, i) == i \in TierTasks(su, su.tier) /\ su.st[i] = "pending"

\* the state before the startup: a list of tasks, the ones marked, the mode
InitStartup ==
  /\ clock = StartClock
  /\ lastmessage = 0
  /\ rooms = <<>>
  /\ tasks = <<>>
  /\ ready = <<>>
  /\ running = 0
  /\ wire = <<>>
  /\ log = <<>>
  /\ session = NewSession
  /\ heap = <<>>
  /\ reg = <<>>
  /\ conn_users = {}
  /\ idle = [u \in Users |-> FALSE]
  /\ call = NoCall
  /\ db = NoUse
  /\ \E tiers \in TierLists, skip \in SUBSET {1, 2}, testing \in BOOLEAN :
       startup = [tiers |-> tiers, skip |-> skip, testing |-> testing,
                  tier |-> 1, st |-> [i \in DOMAIN tiers |-> "pending"]]

\* a task of the tier that runs begins
StartupBegin ==
  /\ session.state = "new"
  /\ startup.tier \in Tiers
  /\ \E i \in DOMAIN startup.tiers :
       /\ MayBegin(startup, i)
       /\ startup' = [startup EXCEPT !.st[i] = "running"]
  /\ UNCHANGED <<clock, lastmessage, rooms, tasks, ready, running, wire, log,
                 session, heap, reg, conn_users, idle, call, db>>

\* a task that has begun completes
StartupEnd ==
  /\ \E i \in DOMAIN startup.tiers :
       /\ startup.st[i] = "running"
       /\ startup' = [startup EXCEPT !.st[i] = "done"]
  /\ UNCHANGED <<clock, lastmessage, rooms, tasks, ready, running, wire, log,
                 session, heap, reg, conn_users, idle, call, db>>

\* every task of the tier has completed: the next tier
StartupAdvance ==
  /\ session.state = "new"
  /\ startup.tier \in Tiers
  /\ \A i \in TierTasks(startup, startup.tier) : startup.st[i] = "done"
  /\ startup' = [startup EXCEPT !.tier = @ + 1]
  /\ UNCHANGED <<clock, lastmessage, rooms, tasks, ready, running, wire, log,
                 session, heap, reg, conn_users, idle, call, db>>

\* the last tier has completed: the transport is opened and the receive
\* loop begins
StartupConnect ==
  /\ startup.tier \notin Tiers
  /\ Connect

NextStartup ==
  \/ StartupBegin
  \/ StartupEnd
  \/ StartupAdvance
  \/ StartupConnect

SpecStartup == InitStartup /\ [][NextStartup]_vars

(* ------------------------------ database ------------------------------ *)

\* the uses of get_session in one run
MaxUses == 2

\* the queries one body makes
MaxQueries == 1

\* one call on the session: who made it, what it was, whether it returned
Event(u, op, ok) == [use |-> u, op |-> op, ok |-> ok]

\* a get_session that commits whatever the body did
get_session_commit_always(body_raises, commit_raises) ==
  [ops |-> <<[op |-> "commit", ok |-> TRUE], [op |-> "close", ok |-> TRUE]>>,
   raised |-> IF body_raises THEN "body" ELSE "none"]

\* Database.get_session from the end of the body on: the calls it makes on
\* the session, in order, and the exception that leaves the with statement
get_session(body_raises, commit_raises) ==
  IF body_raises
  THEN [ops |-> <<[op |-> "rollback", ok |-> TRUE],
                  [op |-> "close", ok |-> TRUE]>>,
        raised |-> "body"]
  ELSE IF commit_raises
  THEN [ops |-> <<[op |-> "commit", ok |-> FALSE],
                  [op |-> "rollback", ok |-> TRUE],
                  [op |-> "close", ok |-> TRUE]>>,
        raised |-> "commit"]
  ELSE [ops |-> <<[op |-> "commit", ok |-> TRUE],
                  [op |-> "close", ok |-> TRUE]>>,
        raised |-> "none"]

\* the calls of use u on the session
EventsOf(d, u) == SelectSeq(d.trace, LAMBDA e : e.use = u)

\* the body is over: get_session runs to its end
Exited(d, u, body_raises, commit_raises) ==
  LET g == get_session(body_raises, commit_raises)
  IN [d EXCEPT !.uses[u] = [pc |-> "done", body |-> body_raises,
                            commit |-> commit_raises, raised |-> g.raised],
               !.running = 0,
               !.trace = @ \o [k \in DOMAIN g.ops |->
                                Event(u, g.ops[k].op, g.ops[k].ok)]]

\* with db.get_session() as session: the scoped session of the thread is
\* handed to the body
Entered(d) ==
  [d EXCEPT !.uses = Append(@, [pc |-> "body", body |-> FALSE,
                                commit |-> FALSE, raised |-> "none"]),
            !.running = Len(d.uses) + 1,
            !.trace = Append(@, Event(Len(d.uses) + 1, "Session", TRUE))]

\* a body that makes one query and is over without an await
UsedAtOnce(d) ==
  LET d1 == Entered(d)
      u == d1.running
      d2 == [d1 EXCEPT !.trace = Append(@, Event(u, "query", TRUE))]
  IN Exited(d2, u, FALSE, FALSE)

\* a command function enters the with statement
GetSession ==
  /\ db.running = 0
  /\ Len(db.uses) < MaxUses
  /\ db' = Entered(db)
  /\ UNCHANGED <<clock, lastmessage, rooms, tasks, ready, running, wire, log,
                 session, heap, reg, conn_users, idle, call, startup>>

\* the body queries the session
BodyQuery ==
  /\ db.running /= 0
  /\ db.uses[db.running].pc = "body"
  /\ Len(SelectSeq(EventsOf(db, db.running), LAMBDA e : e.op = "query"))
       < MaxQueries
  /\ db' = [db EXCEPT !.trace = Append(@, Event(db.running, "query", TRUE))]
  /\ UNCHANGED <<clock, lastmessage, rooms, tasks, ready, running, wire, log,
                 session, heap, reg, conn_users, idle, call, startup>>

\* the body awaits a reply inside the with statement: the loop is free for
\* the command of another frame
BodyAwait ==
  /\ db.running /= 0
  /\ db.uses[db.running].pc = "body"
  /\ db' = [db EXCEPT !.uses[db.running].pc = "await", !.running = 0]
  /\ UNCHANGED <<clock, lastmessage, rooms, tasks, ready, running, wire, log,
                 session, heap, reg, conn_users, idle, call, startup>>

\* the reply has been sent: the body goes on to its end
BodyResume ==
  /\ db.running = 0
  /\ \E u \in DOMAIN db.uses :
       /\ db.uses[u].pc = "await"
       /\ db' = [db EXCEPT !.uses[u].pc = "last", !.running = u]
  /\ UNCHANGED <<clock, lastmessage, rooms, tasks, ready, running, wire, log,
                 session, heap, reg, conn_users, idle, call, startup>>

\* the body returns or raises, and the commit returns or raises
ExitSession ==
  /\ db.running /= 0
  /\ db.uses[db.running].pc \in {"body", "last"}
  /\ \E body_raises \in BOOLEAN, commit_raises \in BOOLEAN :
       db' = Exited(db, db.running, body_raises, commit_raises)
  /\ UNCHANGED <<clock, lastmessage, rooms, tasks, ready, running, wire, log,
                 session, heap, reg, conn_users, idle, call, startup>>

NextDatabase ==
  \/ GetSession
  \/ BodyQuery
  \/ BodyAwait
  \/ BodyResume
  \/ ExitSession

SpecDatabase == Init /\ [][NextDatabase]_vars

(* ------------------------------ commands ------------------------------ *)

\* str.strip(): the text without the spaces at its two ends
Strip(s) ==
  LET ns == {k \in DOMAIN s : s[k] /= " "}
  IN IF ns = {} THEN <<>>
     ELSE SubSeq(s, CHOOSE k \in ns : \A x \in ns : k <= x,
                    CHOOSE k \in ns : \A x \in ns : x <= k)

\* Message.args: the pieces of the argument text between commas, stripped
Args(arg) == LET p == Split(arg, ",") IN [k \in DOMAIN p |-> Strip(p[k])]

\* veekun, version_groups: (identifier, id)
version_groups == {<<<<"y", "e", "l", "l", "o", "w">>, 2>>, <<<<"c", "r", "y", "s", "t", "a", "l">>, 4>>}

\* veekun, versions: (identifier, version_group_id)
versions == {<<<<"r", "e", "d">>, 1>>, <<<<"b", "l", "u", "e">>, 1>>, <<<<"y", "e", "l", "l", "o", "w">>, 2>>, <<<<"g", "o", "l", "d">>, 3>>}

\* veekun, pokemon_moves joined to the species: (species identifier,
\* version_group_id) of the moves a species learns
pokemon_moves ==
  {<<<<"p", "i", "k", "a", "c", "h", "u">>, 1>>, <<<<"p", "i", "k", "a", "c", "h", "u">>, 2>>, <<<<"p", "i", "k", "a", "c", "h", "u">>, 3>>, <<<<"p", "i", "c", "h", "u">>, 3>>}

\* veekun, locations: identifier
locations_table == {<<"v", "i", "r", "i", "d", "i", "a", "n", "f", "o", "r", "e", "s", "t">>, <<"p", "a", "l", "l", "e", "t", "t", "o", "w", "n">>}

\* veekun, encounters joined to species and location: (species identifier,
\* location identifier)
encounters_table == {<<<<"p", "i", "k", "a", "c", "h", "u">>, <<"v", "i", "r", "i", "d", "i", "a", "n", "f", "o", "r", "e", "s", "t">>>>}

\* Query.scalar() of a query filtered by identifier: the value, or None
Scalar(table, identifier) ==
  IF \E r \in table : r[1] = identifier
  THEN (CHOOSE r \in table : r[1] = identifier)[2]
  ELSE None

\* utils.render_template: the template of a command renders nothing for no
\* results
render_template(results) == IF results = {} THEN <<>> ELSE <<"<", "t", "a", "b", "l", "e", ">">>

NessunDato == <<"N", "e", "s", "s", "u", "n", " ", "d", "a", "t", "o">>

\* '<div class="ladder">' + html + "</div>"
Ladder(html) == <<"<", "d", "i", "v", ">">> \o html \o <<"<", "/", "d", "i", "v", ">">>

\* the message that stands for an HTML box which cannot be shown in PM
PmOnlyRoombot == <<"Q", "u", "e", "s", "t", "o", " ", "c", "o", "m", "a", "n", "d", "o">>

\* no Room: None
NoRoom == <<>>

\* Connection.send_reply, the frames it sends
send_reply(room, user, message) ==
  IF room = NoRoom THEN <<send_pm(user, message)>>
  ELSE <<send_message(room, message)>>

\* an HTML box that is never shown in PM
send_htmlbox_never(room, user, pmroom, message) ==
  IF room /= NoRoom
  THEN <<send_message(room, <<"/", "a", "d", "d", "h", "t", "m", "l", "b", "o", "x", " ">> \o message)>>
  ELSE <<send_pm(user, PmOnlyRoombot)>>

\* Connection.send_htmlbox, the frames it sends; pmroom is the answer of
\* utils.can_pminfobox_to: a Room the user is in where the bot is roombot
send_htmlbox(room, user, pmroom, message) ==
  IF room /= NoRoom
  THEN <<send_message(room, <<"/", "a", "d", "d", "h", "t", "m", "l", "b", "o", "x", " ">> \o message)>>
  ELSE IF pmroom /= NoRoom
       THEN <<send_message(pmroom,
                           <<"/", "p", "m", "i", "n", "f", "o", "b", "o", "x", " ">> \o user \o <<",", " ">> \o message)>>
       ELSE <<send_pm(user, PmOnlyRoombot)>>

\* a learnset that takes any second argument for a version of group 1
learnset_any_version(room, user, pmroom, arg) ==
  LET args == Args(arg)
  IN IF Len(args) < 2 THEN <<>>
     ELSE LET html == render_template(
                        {r \in pokemon_moves :
                           r[1] = to_user_id(args[1]) /\ r[2] = 1})
          IN IF html = <<>> THEN send_reply(room, user, NessunDato)
             ELSE send_htmlbox(room, user, pmroom, Ladder(html))

\* plugins.learnsets.learnset, the frames it sends
learnset(room, user, pmroom, arg) ==
  LET args == Args(arg)
  IN IF Len(args) < 2 THEN <<>>
     ELSE LET pokemon_id == to_user_id(args[1])
              version == to_user_id(args[2])
              by_group == Scalar(version_groups, version)
              version_group_id ==
                IF by_group = None THEN Scalar(versions, version)
                ELSE by_group
          IN IF version_group_id = None THEN <<>>
             ELSE LET results == {r \in pokemon_moves :
                                    /\ r[1] = pokemon_id
                                    /\ r[2] = version_group_id}
                      html == render_template(results)
                  IN IF html = <<>>
                     THEN send_reply(room, user, NessunDato)
                     ELSE send_htmlbox(room, user, pmroom, Ladder(html))

\* plugins.locations.locations, the frames it sends
locations(room, user, pmroom, arg) ==
  LET pokemon_id == to_user_id(arg)
      results == {r \in encounters_table : r[1] = pokemon_id}
      html == render_template(results)
  IN IF html = <<>> THEN send_reply(room, user, NessunDato)
     ELSE send_htmlbox(room, user, pmroom, Ladder(html))

\* plugins.locations.encounters, the frames it sends
encounters(room, user, pmroom, arg) ==
  LET location_id == to_user_id(arg)
      location == {l \in locations_table : l = location_id}
      results == IF location /= {}
                 THEN {r \in encounters_table : r[2] = location_id}
                 ELSE {}
      html == render_template(results)
  IN IF html = <<>> THEN send_reply(room, user, NessunDato)
     ELSE send_htmlbox(room, user, pmroom, Ladder(html))

\* the argument texts of the commands
CommandArgs ==
  {<<>>, <<"p", "i", "k", "a", "c", "h", "u">>, <<"a", "b", "c">>, <<"a", "b", "c", ",", " ", "r", "e", "d">>, <<"p", "i", "k", "a", "c", "h", "u", ",", " ", "r", "e", "d">>, <<"p", "i", "c", "h", "u", ",", " ", "r", "e", "d">>,
   <<"P", "i", "k", "a", "c", "h", "u", " ", ",", " ", "Y", "e", "l", "l", "o", "w">>, <<"p", "i", "c", "h", "u", ",", "g", "o", "l", "d">>, <<"p", "i", "k", "a", "c", "h", "u", ",", " ", "c", "r", "y", "s", "t", "a", "l">>, <<"p", "i", "k", "a", "c", "h", "u", ",", " ", ",", "r", "e", "d">>,
   <<"p", "i", "k", "a", "c", "h", "u", ",", " ", "a", "b", "c">>,
   <<"V", "i", "r", "i", "d", "i", "a", "n", " ", "F", "o", "r", "e", "s", "t">>, <<"p", "a", "l", "l", "e", "t", "t", "o", "w", "n">>}

\* the user who gives the commands
CommandUser == <<"u", "s", "e", "r", "1">>

\* where a command is given and whether the user can be shown an HTML box
\* in PM: in PM (no Room) or in a Room; in no Room with the bot as roombot
\* or in one
CommandRooms == {NoRoom, <<"r", "o", "o", "m", "1">>}

\* what is kept of a call of a command function: the message it was given
\* and the frames it sent
CommandCall(op, room, pmroom, arg, out) ==
  [op |-> op, arg |-> arg, rank |-> "", obj |-> 0, warned |-> FALSE,
   before |-> None, room |-> room, pmroom |-> pmroom, out |-> out]

\* a learnset command is dispatched; with two arguments it opens a session
LearnsetCall ==
  /\ \E room \in CommandRooms, pmroom \in CommandRooms, arg \in CommandArgs :
       /\ call' = CommandCall("learnset", room, pmroom, arg,
                              learnset(room, CommandUser, pmroom, arg))
       /\ IF Len(Args(arg)) < 2 THEN UNCHANGED db
          ELSE Len(db.uses) < MaxUses /\ db' = UsedAtOnce(db)
  /\ UNCHANGED <<heap, reg, conn_users, idle, startup>>
  /\ UNCHANGED <<clock, lastmessage, rooms, tasks, ready, running, wire, log,
                 session>>

\* a locations command is dispatched
LocationsCall ==
  /\ Len(db.uses) < MaxUses
  /\ \E room \in CommandRooms, pmroom \in CommandRooms, arg \in CommandArgs :
       call' = CommandCall("locations", room, pmroom, arg,
                           locations(room, CommandUser, pmroom, arg))
  /\ db' = UsedAtOnce(db)
  /\ UNCHANGED <<heap, reg, conn_users, idle, startup>>
  /\ UNCHANGED <<clock, lastmessage, rooms, tasks, ready, running, wire, log,
                 session>>

\* an encounters command is dispatched
EncountersCall ==
  /\ Len(db.uses) < MaxUses
  /\ \E room \in CommandRooms, pmroom \in CommandRooms, arg \in CommandArgs :
       call' = CommandCall("encounters", room, pmroom, arg,
                           encounters(room, CommandUser, pmroom, arg))
  /\ db' = UsedAtOnce(db)
  /\ UNCHANGED <<heap, reg, conn_users, idle, startup>>
  /\ UNCHANGED <<clock, lastmessage, rooms, tasks, ready, running, wire, log,
                 session>>

\* the commands that look veekun up, in any order
NextCommands ==
  \/ LearnsetCall
  \/ LocationsCall
  \/ EncountersCall

SpecCommands == Init /\ [][NextCommands]_vars

(* ------------------------ the sends of a session ---------------------- *)

\* frames the transport delivers in a run of the sends
MaxSendFrames == 2

\* the frames whose handlers reply
SendFrames == {FrameChat, FrameJoin}

\* start_websocket: recv() returns a frame
RecvSend ==
  /\ UNCHANGED <<session, aux>>
  /\ Open
  /\ CanRecv
  /\ Len(tasks) < MaxSendFrames
  /\ \E message \in SendFrames : RecvFrame(message)
  /\ UNCHANGED <<clock, lastmessage, rooms, running, wire, log>>

\* time passes while a task sleeps in the limiter
TickSleep ==
  /\ UNCHANGED <<session, aux>>
  /\ running = 0
  /\ \E t \in Sleeping : clock < tasks[t].wake
  /\ clock' = clock + 1
  /\ UNCHANGED <<lastmessage, rooms, tasks, ready, running, wire, log>>

NextSend ==
  \/ Connect
  \/ Tick
  \/ TickSleep
  \/ RecvSend
  \/ Schedule
  \/ ParseStart
  \/ TryModchat
  \/ ParseLine
  \/ HandlerRun
  \/ HandlerReply
  \/ SendEnter
  \/ Wake
  \/ SendWrite

\* the loop runs whatever is ready, the timers fire when they are due, a
\* task that holds the loop goes on, and time passes
FairSend ==
  /\ WF_vars(TickSleep)
  /\ WF_vars(Schedule)
  /\ WF_vars(Wake)
  /\ WF_vars(ParseStart)
  /\ WF_vars(TryModchat)
  /\ WF_vars(ParseLine)
  /\ WF_vars(HandlerRun)
  /\ WF_vars(HandlerReply)
  /\ WF_vars(SendEnter)
  /\ WF_vars(SendWrite)

SpecSend == Init /\ [][NextSend]_vars /\ FairSend

(* -------------------------------- tours ------------------------------- *)

\* frames that carry a tour command in one run
MaxTours == 2

\* no number: None
NoNumber == -1

\* f"{x}" of the numbers given to create_tour, which are kept in tenths:
\* 2 is written "2" and 1.5 is written "1.5"
FormatNumber(tenths) ==
  LET whole == tenths \div 10
      digits == IF whole >= 10
                THEN <<DigitChars[(whole \div 10) + 1], DigitChars[(whole % 10) + 1]>>
                ELSE <<DigitChars[whole + 1]>>
  IN IF tenths % 10 = 0 THEN digits
     ELSE digits \o <<".">> \o <<DigitChars[(tenths % 10) + 1]>>

\* ",".join(rules)
JoinRules(rules) ==
  IF rules = <<>> THEN <<>>
  ELSE IF Len(rules) = 1 THEN rules[1]
  ELSE rules[1] \o <<",">> \o rules[2]

\* the first command of a tour, for the default format and generator
TourNew == <<"/", "t", "o", "u", "r", " ", "n", "e", "w", " ", "c", "u", "s", "t", "o", "m", "g", "a", "m", "e", ",", " ", "e", "l", "i", "m", "i", "n", "a", "t", "i", "o", "n", ",", " ", ",", " ", ",", " ">>

\* a create_tour that sets the tour up before it creates it
create_tour_settings_first(p) ==
  (IF p.autostart /= NoNumber
   THEN <<<<"/", "t", "o", "u", "r", " ", "a", "u", "t", "o", "s", "t", "a", "r", "t", " ">> \o FormatNumber(p.autostart)>> ELSE <<>>)
  \o <<TourNew>>

\* plugins.tours.create_tour: the commands it gives to msg.reply, in order
create_tour(p) ==
  <<TourNew>>
  \o (IF p.autostart /= NoNumber
      THEN <<<<"/", "t", "o", "u", "r", " ", "a", "u", "t", "o", "s", "t", "a", "r", "t", " ">> \o FormatNumber(p.autostart)>> ELSE <<>>)
  \o (IF p.autodq /= NoNumber
      THEN <<<<"/", "t", "o", "u", "r", " ", "a", "u", "t", "o", "d", "q", " ">> \o FormatNumber(p.autodq)>> ELSE <<>>)
  \o (IF ~p.allow_scouting THEN <<<<"/", "t", "o", "u", "r", " ", "s", "c", "o", "u", "t", "i", "n", "g", " ", "o", "f", "f">>>> ELSE <<>>)
  \o (IF p.forcetimer THEN <<<<"/", "t", "o", "u", "r", " ", "f", "o", "r", "c", "e", "t", "i", "m", "e", "r", " ", "o", "n">>>> ELSE <<>>)
  \o (IF p.rules /= <<>>
      THEN <<<<"/", "t", "o", "u", "r", " ", "r", "u", "l", "e", "s", " ">> \o JoinRules(p.rules)>> ELSE <<>>)

\* the arguments of one call of create_tour
TourArgs(autostart, autodq, allow_scouting, forcetimer, rules) ==
  [autostart |-> autostart, autodq |-> autodq,
   allow_scouting |-> allow_scouting, forcetimer |-> forcetimer,
   rules |-> rules]

\* the arguments the tour commands give to create_tour: the defaults of
\* create_tour, and a tour with a timer and rules that allows scouting
TourParams ==
  {TourArgs(20, 15, FALSE, FALSE, <<>>),
   TourArgs(NoNumber, NoNumber, TRUE, TRUE, <<<<"B", "l", "i", "t", "z">>, <<"I", "n", "v", "e", "r", "s", "e", " ", "M", "o", "d">>>>)}

\* a chat line with a tour command, from a driver of the room
TourFrame == <<">", "l", "o", "b", "b", "y">> \o <<"\n">> \o <<"|", "c", "|", "%", "m", "o", "d", "|", ".", "t", "o", "u", "r">>

\* start_websocket: recv() returns a frame with a tour command
RecvTour ==
  /\ UNCHANGED <<session, aux>>
  /\ Open
  /\ CanRecv
  /\ Len(tasks) < MaxTours
  /\ RecvFrame(TourFrame)
  /\ UNCHANGED <<clock, lastmessage, rooms, running, wire, log>>

\* the command of the frame is dispatched and its function calls
\* create_tour
TourStart ==
  /\ UNCHANGED <<session, aux>>
  /\ running /= 0
  /\ tasks[running].pc = "start"
  /\ \E p \in TourParams :
       tasks' = [tasks EXCEPT ![running].pc = "tour",
                              ![running].roomid =
                                 to_room_id(HeaderRoom(tasks[running].message)),
                              ![running].tour = p,
                              ![running].queue = create_tour(p)]
  /\ UNCHANGED <<clock, lastmessage, rooms, ready, running, wire, log>>

\* create_tour awaits msg.reply(command, False) for its next command, or
\* returns
TourStep ==
  /\ UNCHANGED <<session, aux>>
  /\ running /= 0
  /\ tasks[running].pc = "tour"
  /\ LET T == tasks[running]
     IN IF T.queue = <<>>
        THEN Return
        ELSE CallSend([T EXCEPT !.queue = Tail(T.queue)],
                      RoomSend(T.roomid, Head(T.queue), FALSE),
                      "Room.send", "tour")
  /\ UNCHANGED <<clock, rooms, log>>

NextTours ==
  \/ Connect
  \/ RecvTour
  \/ Schedule
  \/ TourStart
  \/ TourStep
  \/ SendEnter
  \/ TickSleep
  \/ Wake
  \/ SendWrite

SpecTours == Init /\ [][NextTours]_vars

(* ------------------------------ shutdown ------------------------------ *)

\* the SIGINT signals delivered
MaxSignals == 1

\* the tasks that are over
Over(T) == T.pc \in {"done", "failed", "cancelled"}

\* task.cancel() on every task of the loop: a task that is suspended or
\* ready gets CancelledError at its next step, the task that is running
\* at its next suspension
CancelAll(ts, run) ==
  [t \in DOMAIN ts |->
     IF Over(ts[t]) THEN ts[t]
     ELSE IF t = run THEN [ts[t] EXCEPT !.must_cancel = TRUE]
     ELSE [ts[t] EXCEPT !.pc = "cancelled"]]

\* main.shutdown, the handler of SIGINT, which runs in the main thread at
\* any moment: nothing without a websocket; otherwise every task of the
\* loop, the one of start_websocket included, is cancelled from there and
\* the close of the websocket is handed to the loop
Sigint ==
  /\ session.signals < MaxSignals
  /\ IF session.websocket = None
     THEN /\ session' = [session EXCEPT !.signals = @ + 1]
          /\ UNCHANGED <<tasks, ready>>
     ELSE /\ session' = [session EXCEPT !.signals = @ + 1,
                                        !.cancelling = TRUE]
          /\ tasks' = CancelAll(tasks, running)
          /\ ready' = <<>>
  /\ UNCHANGED <<clock, lastmessage, rooms, running, wire, log>>
  /\ UNCHANGED aux

\* the loop is free: CancelledError is raised at recv() in start_websocket,
\* the async with closes the websocket, and the exception, which the except
\* clause does not name, leaves run_until_complete
Stop ==
  /\ session.cancelling
  /\ session.state = "open"
  /\ running = 0
  /\ session' = [session EXCEPT !.state = "closed", !.fatal = TRUE]
  /\ UNCHANGED <<clock, lastmessage, rooms, tasks, ready, running, wire, log>>
  /\ UNCHANGED aux

\* the session with the shutdown request
NextShutdown ==
  \/ Next
  \/ Sigint
  \/ Stop

SpecShutdown == Init /\ [][NextShutdown]_vars

(* ----------------------- the moderator gap at night ------------------- *)

\* ">lobby\n(Bob set modchat to +)"
GapFrameOn ==
  <<">", "l", "o", "b", "b", "y", "\n", "(", "B", "o", "b", " ", "s", "e", "t", " ", "m", "o", "d", "c", "h", "a", "t", " ", "t", "o", " ", "+", ")">>

\* ">lobby\n|error|Modchat is already set to off."
GapFrameOff ==
  <<">", "l", "o", "b", "b", "y", "\n", "|", "e", "r", "r", "o", "r", "|", "M", "o", "d", "c", "h", "a", "t", " ", "i", "s", " ", "a", "l", "r", "e", "a", "d", "y", " ", "s", "e", "t", " ", "t", "o", " ", "o", "f", "f", ".">>

\* ">lobby\n|c|hi"
GapFrameChat ==
  <<">", "l", "o", "b", "b", "y", "\n", "|", "c", "|", "h", "i">>

\* ">Tours\n(Bob set modchat to +)"
GapFrameOther ==
  <<">", "T", "o", "u", "r", "s", "\n", "(", "B", "o", "b", " ", "s", "e", "t", " ", "m", "o", "d", "c", "h", "a", "t", " ", "t", "o", " ", "+", ")">>

\* ">lobby\n(Al set modchat to x)\n|error|Modchat is already set to %."
GapFrameTwo ==
  <<">", "l", "o", "b", "b", "y", "\n", "(", "A", "l", " ", "s", "e", "t", " ", "m", "o", "d", "c", "h", "a", "t", " ", "t", "o", " ", "x", ")", "\n", "|", "e", "r", "r", "o", "r", "|", "M", "o", "d", "c", "h", "a", "t", " ", "i", "s", " ", "a", "l", "r", "e", "a", "d", "y", " ", "s", "e", "t", " ", "t", "o", " ", "%", ".">>

\* the frames of a night without moderators
GapFrames ==
  {GapFrameOn, GapFrameOff, GapFrameChat, GapFrameOther, GapFrameTwo}

\* the session after earlier frames: the Room of the configured room is
\* registered, with or without an open gap, modchat on or off, and the gap
\* delay has just passed or is about to
InitGap ==
  /\ clock = StartClock + GapDelay
  /\ lastmessage = 0
  /\ \E gap \in {None, StartClock}, modchat \in BOOLEAN :
       rooms = [roomid \in ROOMS |->
                  [NewRoom EXCEPT !.no_mods_online = gap, !.modchat = modchat]]
  /\ tasks = <<>>
  /\ ready = <<>>
  /\ running = 0
  /\ wire = <<>>
  /\ log = <<>>
  /\ session = NewSession
  /\ heap = <<>>
  /\ reg = <<>>
  /\ conn_users = {}
  /\ idle = [u \in Users |-> FALSE]
  /\ call = NoCall
  /\ startup = NoStartup
  /\ db = NoUse

\* start_websocket: recv() returns a frame of the night
RecvGap ==
  /\ UNCHANGED <<session, aux>>
  /\ Open
  /\ CanRecv
  /\ Len(tasks) < MaxFrames
  /\ \E message \in GapFrames : RecvFrame(message)
  /\ UNCHANGED <<clock, lastmessage, rooms, running, wire, log>>

NextGap ==
  \/ Connect
  \/ Tick
  \/ RecvGap
  \/ Schedule
  \/ ParseStart
  \/ TryModchat
  \/ ParseLine
  \/ HandlerRun
  \/ HandlerReply
  \/ SendEnter
  \/ Wake
  \/ SendWrite

SpecGap == InitGap /\ [][NextGap]_vars

(* ------------------------------ claims -------------------------------- *)

\* C1: any two consecutive writes to the transport are separated by at
\* least 0.1 time-units, whatever the interleaving of the send calls.
C1_MinSpacing ==
  \A k \in 1..(Len(wire) - 1) : wire[k + 1].at - wire[k].at >= SendInterval

\* the write j follows the write k back-to-back: both calls were issued at
\* the same time, or the later one was issued by the same task at the very
\* time the earlier one was written
BackToBack(k, j) ==
  /\ k < j
  /\ \/ wire[j].issued = wire[k].issued
     \/ wire[j].task = wire[k].task /\ wire[j].issued = wire[k].at

\* C2: of two send calls issued back-to-back with no delay between them,
\* the second is written no earlier than 0.1 time-units after the first.
C2_BackToBack ==
  \A k, j \in DOMAIN wire :
    BackToBack(k, j) => wire[j].at >= wire[k].at + SendInterval

\* C3: every write to the transport is the write step of a Connection.send
\* call that came through the limiter; the reply helpers only format a
\* payload and hand it to Connection.send.
C3_SoleFunnel ==
  [][/\ wire' /= wire =>
          /\ running /= 0
          /\ tasks[running].pc = "write"
          /\ wire' = Append(wire, Written(tasks[running], running))
          /\ lastmessage' = tasks[running].now
     /\ \A t \in DOMAIN tasks :
          (tasks'[t].pc = "write" /\ tasks[t].pc /= "write") =>
            tasks[t].pc \in {"send", "sleep"}
     /\ \A t \in DOMAIN tasks :
          (tasks'[t].pc = "send" /\ tasks[t].pc /= "send") =>
            tasks'[t].via \in {"try_modchat", "send_message", "send_pm", "Room.send"}
    ]_vars

\* every helper has written a frame, each through Connection.send
C3_Witness ==
  /\ \A h \in {"try_modchat", "send_message", "send_pm", "Room.send"} :
       \E k \in DOMAIN wire : wire[k].via = h

\* the lines of the frame of task t
LinesOf(t) == Split(tasks[t].message, "\n")

\* a structured record: a line that begins with the field separator
Structured(msg) == msg /= <<>> /\ msg[1] = "|"

\* the command name of a structured record
CommandOf(msg) == Split(msg, "|")[2]

\* the handler invocations begun for the frame of task t, in order
BeginsOf(t) == SelectSeq(log, LAMBDA e : e.task = t /\ e.ev = "begin")

\* a handler invoked for line n of the frame of task t has returned
Ended(t, n) ==
  \E k \in DOMAIN log : log[k].task = t /\ log[k].line = n /\ log[k].ev = "end"

\* C4: within one frame no handler of a later line begins before every
\* handler invoked for an earlier line has completed, even when a handler
\* suspends in the send limiter.
C4_LineOrder ==
  \A k \in DOMAIN log :
    log[k].ev = "begin" =>
      \A j \in 1..(k - 1) :
        (log[j].task = log[k].task /\ log[j].ev = "begin") =>
          /\ log[j].line < log[k].line
          /\ \E m \in (j + 1)..(k - 1) : log[m] = [log[j] EXCEPT !.ev = "end"]

\* a handler slept in the limiter, and a handler of a later line of the
\* same frame has begun since
C4_Witness ==
  \E k \in DOMAIN wire, j \in DOMAIN log :
    /\ wire[k].via /= "try_modchat"
    /\ wire[k].at > wire[k].issued
    /\ log[j].task = wire[k].task
    /\ log[j].ev = "begin"
    /\ log[j].line > wire[k].line

\* C5: when several handlers are registered for one command name, a line
\* with that command invokes every one of them, with the same arguments.
C5_AllHandlers ==
  \A k \in DOMAIN log :
    log[k].ev = "end" =>
      \A it \in Registered :
        it[1] = CommandOf(LinesOf(log[k].task)[log[k].line]) =>
          \E j \in DOMAIN log :
            log[j] = [log[k] EXCEPT !.handler = it[2], !.ev = "begin"]

\* C6: the receive loop schedules the task of each frame and reads the next
\* frame without waiting for it: receiving is possible whenever the loop is
\* free, and a receive only adds a task that has not run yet.
C6_Independent ==
  /\ []((Open /\ running = 0 /\ Len(tasks) < MaxFrames) => ENABLED Recv)
  /\ [][Len(tasks') /= Len(tasks) =>
          /\ tasks' = Append(tasks, NewTask(tasks'[Len(tasks')].message))
          /\ ready' = Append(ready, Len(tasks'))
          /\ UNCHANGED <<running, lastmessage, rooms, wire, log>>]_vars

\* the tasks of two frames are in progress at the same time, the first
\* suspended in the limiter inside a handler, the second in a handler
C6_Witness ==
  \E t, u \in DOMAIN tasks :
    /\ t /= u
    /\ tasks[t].pc = "sleep"
    /\ tasks[t].ret = "reply"
    /\ tasks[u].pc \in {"handler", "reply"}

\* a line of the frame of task t has been processed
LineProcessed(t) ==
  \/ tasks[t].i > 1
  \/ tasks[t].pc \in {"handler", "reply"}
  \/ tasks[t].pc \in {"send", "sleep", "write"} /\ tasks[t].ret = "reply"
  \/ tasks[t].pc = "done" /\ tasks[t].message /= <<>>

\* C7: all handlers of frame k have completed before any line of frame
\* k + 1 is processed.
C7_FrameOrder ==
  \A t \in DOMAIN tasks :
    (t > 1 /\ LineProcessed(t)) => tasks[t - 1].pc = "done"

\* C7 as amended: the tasks of the frames start in the order of delivery,
\* and a line of a frame is processed only while the task of every other
\* frame has not started, has finished, or is suspended.
C7_StartOrder ==
  /\ \A t \in DOMAIN tasks :
       (t > 1 /\ tasks[t].pc /= "start") => tasks[t - 1].pc /= "start"
  /\ \A t, u \in DOMAIN tasks :
       (running = t /\ u /= t) =>
         \/ tasks[u].pc \in {"start", "done", "sleep"}
         \/ u \in Range(ready)

\* a line of the second frame is processed while a handler of the first
\* frame is suspended in the limiter
C7_Witness ==
  /\ Len(tasks) >= 2
  /\ LineProcessed(2)
  /\ tasks[1].pc = "sleep"
  /\ tasks[1].ret = "reply"

FirstStructured(lines) ==
  IF \E k \in DOMAIN lines : Structured(lines[k])
  THEN CHOOSE k \in DOMAIN lines :
         /\ Structured(lines[k])
         /\ \A j \in 1..(k - 1) : ~Structured(lines[j])
  ELSE 0

\* the tournament records of the lines
TournamentLines(lines) ==
  {k \in DOMAIN lines : Structured(lines[k]) /\ CommandOf(lines[k]) \in InitDenied}

\* the frame begins with an init record
BeginsWithInit(lines) ==
  /\ FirstStructured(lines) /= 0
  /\ CommandOf(lines[FirstStructured(lines)]) = CmdInit

\* C9: in a frame that begins with an init line, the first later tournament
\* line stops the frame: no handler is invoked for that line or a later one,
\* no later line is read, and the handled lines before it were dispatched.
C9_InitStop ==
  \A t \in DOMAIN tasks :
    LET lines == LinesOf(t)
        stops == TournamentLines(lines)
    IN (tasks[t].message /= <<>> /\ BeginsWithInit(lines) /\ stops /= {}) =>
         LET s == CHOOSE k \in stops : \A j \in stops : k <= j
         IN /\ \A k \in DOMAIN log : log[k].task = t => log[k].line < s
            /\ tasks[t].i <= s
            /\ tasks[t].pc = "done" =>
                 /\ tasks[t].i = s
                 /\ \A k \in 1..(s - 1) :
                      (Structured(lines[k]) /\ CommandOf(lines[k]) \in DOMAIN handlers)
                        => Ended(t, k)

\* a frame that begins with init has been stopped at its tournament line
C9_Witness ==
  \E t \in DOMAIN tasks :
    /\ tasks[t].message = FrameInitTour
    /\ tasks[t].pc = "done"
    /\ Ended(t, 2)
    /\ tasks[t].i = 3

\* C10: in a frame whose first structured command is not init, a tournament
\* line is dispatched to its handlers and processing continues to the end
\* of the frame, even if an init line appears elsewhere in the frame.
C10_InitOnlyFirst ==
  \A t \in DOMAIN tasks :
    LET lines == LinesOf(t)
    IN (tasks[t].pc = "done" /\ tasks[t].message /= <<>>
        /\ FirstStructured(lines) /= 0 /\ ~BeginsWithInit(lines)) =>
         /\ tasks[t].i = Len(lines) + 1
         /\ \A k \in TournamentLines(lines) : Ended(t, k)

\* C11: when the transport raises a closed connection or an OS error, the
\* session ends the same way in both cases: it is closed, the server is
\* stopped, nothing propagates as a fatal error; from then on no frame is
\* read, no task runs, and no connection is ever opened again.
C11_NoReconnect ==
  /\ [](session.connects <= 1 /\ ~session.fatal)
  /\ [][(session.state /= "closed" /\ session'.state = "closed") =>
          /\ session' = [session EXCEPT !.state = "closed", !.stopped = TRUE]
          /\ UNCHANGED <<tasks, ready, running, wire, log>>]_vars
  /\ [][session.state = "closed" =>
          UNCHANGED <<session, tasks, ready, running, wire, log, rooms>>]_vars

\* the transport failed after one frame, whose task is left suspended in
\* the limiter, while another frame could still have been read
C11_Witness ==
  /\ session.state = "closed"
  /\ session.stopped
  /\ Len(tasks) = 1
  /\ Len(tasks) < MaxFrames
  /\ tasks[1].pc = "sleep"

\* the handler invocations of task t that ended
EndsOf(t) == SelectSeq(log, LAMBDA e : e.task = t /\ e.ev = "end")

\* the positions of the log where a handler of task t raised
RaisesOf(t) == {k \in DOMAIN log : log[k].task = t /\ log[k].ev = "raise"}

\* C12: an exception raised inside a handler ends the task of its frame and
\* nothing else: the session and the tasks of the other frames are left as
\* they were, and the receive loop goes on reading and scheduling frames.
C12_LoopSurvives ==
  /\ [][\A t \in DOMAIN tasks :
          (tasks[t].pc /= "failed" /\ tasks'[t].pc = "failed") =>
            /\ session' = session
            /\ ready' = ready
            /\ running' = 0
            /\ \A u \in DOMAIN tasks : u /= t => tasks'[u] = tasks[u]]_vars
  /\ []((\E t \in DOMAIN tasks : tasks[t].pc = "failed") =>
          /\ (Open /\ running = 0 /\ Len(tasks) < MaxFrames) => ENABLED Recv
          /\ (Open /\ running = 0 /\ ready /= <<>>) => ENABLED Schedule)

\* a handler of the first frame raised; the second frame was received
\* after that, and a handler of it has run to its end
C12_Witness ==
  /\ Len(tasks) = 2
  /\ tasks[1].pc = "failed"
  /\ RaisesOf(1) /= {}
  /\ tasks[2].born = 1
  /\ EndsOf(2) /= <<>>

\* C13: when a handler of a line raises, every other handler registered for
\* the command of that line still runs to its end on that line.
C13_Isolated ==
  \A k \in DOMAIN log :
    log[k].ev = "raise" =>
      \A it \in Registered :
        (it[1] = CommandOf(LinesOf(log[k].task)[log[k].line])
           /\ it[2] /= log[k].handler) =>
          \E j \in DOMAIN log :
            log[j] = [log[k] EXCEPT !.handler = it[2], !.ev = "end"]

\* the informational line '(Bob set modchat to +)'
SetByBob == <<"(", "B", "o", "b">> \o SetModchat \o <<"+", ")">>

\* the commands that have a registered handler
RegisteredCommands == {it[1] : it \in Registered}

\* C14: a line that is empty or does not begin with '|' is not dispatched
\* but is scanned (a 'set modchat to +' line of a configured room raises
\* the Room's modchat flag); a structured line whose command has no
\* registered handler invokes nothing; in both cases the task goes on with
\* the next line of the frame.
C14_Decoding ==
  [][\A t \in DOMAIN tasks :
       (running = t /\ tasks[t].pc = "loop"
          /\ tasks[t].i <= Len(tasks[t].lines)) =>
         LET T == tasks[t]
             msg == T.lines[T.i]
         IN /\ ~Structured(msg) =>
                 /\ tasks' = [tasks EXCEPT ![t].i = T.i + 1]
                 /\ UNCHANGED <<log, wire, running, session>>
                 /\ (msg = SetByBob /\ T.roomid \in ROOMS) =>
                      /\ T.roomid \in DOMAIN rooms'
                      /\ rooms'[T.roomid].modchat
            /\ (Structured(msg) /\ CommandOf(msg) \notin RegisteredCommands) =>
                 /\ tasks'[t].i = T.i + 1
                 /\ tasks'[t].pc = "loop"
                 /\ UNCHANGED <<log, wire, running, session>>]_vars

\* a frame with an informational line, a structured line of an unknown
\* command and a leave line after them has been read to its end: the
\* modchat flag was raised by the first and cleared by the second, and the
\* handler of the line after them has run
C14_Witness ==
  \E t \in DOMAIN tasks :
    /\ tasks[t].message = FrameTour
    /\ tasks[t].pc = "done"
    /\ ~rooms[tasks[t].roomid].modchat
    /\ \E e \in Range(EndsOf(t)) : e.line = 5 /\ e.handler = "leave"

\* C15: the task of an empty frame ends in its first step, which invokes no
\* handler, sends nothing and changes no Room, User or Session state; no
\* invocation and no write is ever made for an empty frame.
C15_EmptyFrame ==
  /\ [][\A t \in DOMAIN tasks :
          (running = t /\ tasks[t].pc = "start"
             /\ tasks[t].message = FrameEmpty) =>
            /\ tasks' = [tasks EXCEPT ![t].pc = "done"]
            /\ running' = 0
            /\ UNCHANGED <<rooms, wire, log, lastmessage, ready, session>>
            /\ UNCHANGED aux]_vars
  /\ [](/\ \A k \in DOMAIN log : tasks[log[k].task].message /= FrameEmpty
        /\ \A k \in DOMAIN wire : tasks[wire[k].task].message /= FrameEmpty)

\* an empty frame has been processed after a frame that registered a Room
\* and wrote to the transport
C15_Witness ==
  /\ Len(tasks) = 2
  /\ tasks[2].message = FrameEmpty
  /\ tasks[2].pc = "done"
  /\ tasks[1].pc = "done"
  /\ rooms /= <<>>
  /\ wire /= <<>>

\* C16: every registry key maps to a Room object of that id; a Room.get
\* of a registered id returns the registered object and changes nothing,
\* a Room.get of any other id constructs exactly one object, registers it
\* under the normalized id alone and returns it; two calls in a row whose
\* arguments normalize to the same id return the same object.
C16_RegistryUnique ==
  /\ [](\A k \in DOMAIN reg :
          reg[k] \in DOMAIN heap /\ heap[reg[k]].roomid = k)
  /\ [][(call'.op = "get" /\ <<heap, reg, call>>' /= <<heap, reg, call>>) =>
          LET roomid == to_room_id(call'.arg)
          IN /\ roomid \in DOMAIN reg' /\ call'.obj = reg'[roomid]
             /\ \A k \in DOMAIN reg : k \in DOMAIN reg' /\ reg'[k] = reg[k]
             /\ IF roomid \in DOMAIN reg
                THEN heap' = heap /\ reg' = reg
                ELSE /\ Len(heap') = Len(heap) + 1
                     /\ SubSeq(heap', 1, Len(heap)) = heap
                     /\ DOMAIN reg' = DOMAIN reg \cup {roomid}
                     /\ reg'[roomid] = Len(heap')
                     /\ ~call'.warned
             /\ (call.op = "get" /\ to_room_id(call.arg) = roomid) =>
                  call'.obj = call.obj]_vars

\* Room.get('Lobby') has returned the one Room constructed so far, which
\* an earlier call under another spelling registered and which has a member
C16_Witness ==
  /\ call.op = "get"
  /\ call.arg = <<"L", "o", "b", "b", "y">>
  /\ Len(heap) = 1
  /\ call.obj = 1
  /\ heap[1].users /= <<>>
  /\ DOMAIN reg = {<<"l", "o", "b", "b", "y">>}

\* C17: a direct construction for a registered id warns, adds no registry
\* key, and leaves the id mapped to the new object, whose state is that of
\* a new Room; the object registered before is untouched but no registry
\* key leads to it any more. The other entries of the registry stay.
C17_Override ==
  [][(call'.op = "new" /\ <<heap, reg, call>>' /= <<heap, reg, call>>) =>
       LET roomid == call'.arg
       IN /\ call'.warned = (roomid \in DOMAIN reg)
          /\ DOMAIN reg' = DOMAIN reg \cup {roomid}
          /\ Len(heap') = Len(heap) + 1
          /\ SubSeq(heap', 1, Len(heap)) = heap
          /\ reg'[roomid] = Len(heap')
          /\ call'.obj = Len(heap')
          /\ heap'[Len(heap')].roomid = roomid
          /\ heap'[Len(heap')].users = <<>>
          /\ heap'[Len(heap')].no_mods_online = None
          /\ ~heap'[Len(heap')].modchat
          /\ \A k \in DOMAIN reg : k /= roomid => reg'[k] = reg[k]
          /\ roomid \in DOMAIN reg =>
               \A k \in DOMAIN reg' : reg'[k] /= reg[roomid]]_vars

\* Room('lobby') has been constructed over a registered Room of that id
\* which has its two members: the warning was given, the registry has one
\* key and it maps to the new, empty object
C17_Witness ==
  /\ call.op = "new"
  /\ call.warned
  /\ Len(heap) = 2
  /\ Len(heap[1].users) = 2
  /\ heap[1].roomid = call.arg
  /\ DOMAIN reg = {call.arg}
  /\ reg[call.arg] = 2
  /\ heap[2].users = <<>>

\* a member of the Room that is not idle and holds at least driver
ModsOnline(room, idl) ==
  {m \in Range(room.users) : ~idl[m[1]] /\ m[2] \in DriverRanks}

\* C18: after each add_user and remove_user call, no_mods_online of the
\* Room is set if and only if no member is both non-idle and a driver.
C18_GapIff ==
  call.op \in {"add_user", "remove_user"} =>
    LET room == heap[call.obj]
    IN (room.no_mods_online /= None) <=> (ModsOnline(room, idle) = {})

\* C19: after add_user has added or updated a member that is then
\* non-idle and holds at least driver, no_mods_online is None.
C19_ModClearsGap ==
  [][(call'.op = "add_user"
        /\ <<heap, idle, call>>' /= <<heap, idle, call>>) =>
       LET room == heap'[call'.obj]
           user == call'.arg
       IN (~idle'[user] /\ RankOf(room.users, user) \in DriverRanks) =>
            room.no_mods_online = None]_vars

\* add_user has just added a non-idle driver to a Room whose gap was
\* open: the gap is closed
C19_Witness ==
  /\ call.op = "add_user"
  /\ call.before /= None
  /\ ~idle[call.arg]
  /\ RankOf(heap[call.obj].users, call.arg) \in DriverRanks
  /\ heap[call.obj].no_mods_online = None

\* C20: when a call of remove_user or add_user leaves the Room without a
\* non-idle driver that it had before the call, no_mods_online is the time
\* of the call.
C20_GapOpens ==
  [][(call'.op \in {"add_user", "remove_user"}
        /\ <<heap, idle, call>>' /= <<heap, idle, call>>
        /\ ModsOnline(heap[call'.obj], idle) /= {}
        /\ ModsOnline(heap'[call'.obj], idle') = {}) =>
       heap'[call'.obj].no_mods_online = clock]_vars

\* the users that are members of the Room
MembersOf(room) == {m[1] : m \in Range(room.users)}

\* C21: add_user stores the given rank; with no rank given a new member
\* gets the unranked rank ' ' and a member keeps the rank it had; the
\* number of members grows by one exactly when the user was not a member,
\* and no other member's rank changes.
C21_Upsert ==
  [][(call'.op = "add_user"
        /\ <<heap, idle, call>>' /= <<heap, idle, call>>) =>
       LET old == heap[call'.obj].users
           new == heap'[call'.obj].users
           user == call'.arg
           rank == call'.rank
       IN /\ MembersOf(heap'[call'.obj]) =
               MembersOf(heap[call'.obj]) \cup {user}
          /\ RankOf(new, user) =
               IF rank /= "" THEN rank
               ELSE IF IsMember(old, user) THEN RankOf(old, user) ELSE " "
          /\ Len(new) = Len(old) + (IF IsMember(old, user) THEN 0 ELSE 1)
          /\ \A m \in Range(old) :
               m[1] /= user => RankOf(new, m[1]) = m[2]]_vars

\* add_user without a rank has just been called for a driver that was a
\* member, beside another member: the driver kept its rank
C21_Witness ==
  /\ call.op = "add_user"
  /\ call.rank = ""
  /\ Len(heap[call.obj].users) = 2
  /\ RankOf(heap[call.obj].users, call.arg) = "%"

Min(a, b) == IF a < b THEN a ELSE b

\* C23: the buffer of a Room never holds more than 20 lines; after k lines
\* have been appended it holds the last min(k, 20) of them, oldest first.
C23_BufferBound ==
  /\ [](\A o \in DOMAIN heap :
          LET buf == heap[o].dynamic_buffer
              k == Arrived(buf)
          IN /\ Len(buf) <= 20
             /\ Len(buf) = Min(k, 20)
             /\ \A i \in DOMAIN buf : buf[i] = k - Len(buf) + i)
  /\ [][(call'.op = "append" /\ call' /= call) =>
          LET old == heap[call'.obj].dynamic_buffer
              new == heap'[call'.obj].dynamic_buffer
          IN /\ new[Len(new)] = call'.arg
             /\ call'.arg = Arrived(old) + 1
             /\ Len(old) = 20 => (Len(new) = 20 /\ new[1] = old[2])]_vars

\* 22 lines have been appended to a buffer: it holds lines 3 to 22
C23_Witness ==
  \E o \in DOMAIN heap :
    /\ Len(heap[o].dynamic_buffer) = 20
    /\ heap[o].dynamic_buffer[1] = 3
    /\ heap[o].dynamic_buffer[20] = 22

\* task t is in try_modchat in this state and has left it in the next
LeavesModchat(t) ==
  /\ t \in DOMAIN tasks
  /\ tasks[t].pc = "modchat"
  /\ tasks'[t].pc /= "modchat"

\* task t sends the command of try_modchat on this step
Emits(t) == LeavesModchat(t) /\ tasks'[t].pc = "send"

\* C24: try_modchat sends '<roomid>|/modchat +', as given, only when the
\* Room's modchat flag is false, its gap timestamp is set and the local
\* time is in [00:30, 08:00); otherwise it sends nothing and leaves the
\* state of every Room as it was.
C24_ModchatGuard ==
  [][\A t \in DOMAIN tasks :
       LeavesModchat(t) =>
         LET roomid == tasks[t].roomid
         IN IF Emits(t)
            THEN /\ tasks'[t].payload = roomid \o <<"|">> \o ModchatCmd
                 /\ tasks'[t].via = "try_modchat"
                 /\ ~rooms'[roomid].modchat
                 /\ rooms'[roomid].no_mods_online /= None
                 /\ 30 <= tasks'[t].minutes
                 /\ tasks'[t].minutes < 480
            ELSE /\ UNCHANGED <<wire, lastmessage, log>>
                 /\ tasks' = [tasks EXCEPT ![t].pc = "loop"]
                 /\ \A k \in DOMAIN rooms :
                      k \in DOMAIN rooms' /\ rooms'[k] = rooms[k]]_vars

\* the command has been written for a frame received at 07:59, and the
\* try_modchat of another frame, with modchat set by then, sent nothing
C24_Witness ==
  /\ \E k \in DOMAIN wire :
       wire[k].via = "try_modchat" /\ tasks[wire[k].task].minutes = 479
  /\ \E t \in DOMAIN tasks :
       /\ tasks[t].pc = "done"
       /\ tasks[t].message = GapFrameChat
       /\ \A k \in DOMAIN wire : wire[k].task /= t
  /\ rooms[<<"l", "o", "b", "b", "y">>].modchat

\* C25: try_modchat sends its command only when at least 7 hours (of 3600
\* seconds of 20 ticks) have passed since the Room's gap timestamp.
C25_SevenHours ==
  [][\A t \in DOMAIN tasks :
       Emits(t) =>
         rooms'[tasks[t].roomid].no_mods_online + 7 * 3600 * 20 <= clock]_vars

\* C25 as amended: try_modchat sends its command only when more than 7
\* minutes (7 * 60 seconds of 20 ticks) have passed since the Room's gap
\* timestamp.
C25_SevenMinutes ==
  [][\A t \in DOMAIN tasks :
       Emits(t) =>
         rooms'[tasks[t].roomid].no_mods_online + 7 * 60 * 20 < clock]_vars

\* the command has been written for a gap that began 7 minutes and 1 tick
\* before
C25_Witness ==
  \E k \in DOMAIN wire :
    /\ wire[k].via = "try_modchat"
    /\ wire[k].issued = StartClock + 7 * 60 * 20 + 1
    /\ rooms[<<"l", "o", "b", "b", "y">>].no_mods_online = StartClock

\* C26: two commands of try_modchat for the same room are sent at least 15
\* seconds (of 20 ticks) apart.
C26_Debounce ==
  \A k, j \in DOMAIN wire :
    (k < j /\ wire[k].via = "try_modchat" /\ wire[j].via = "try_modchat"
       /\ wire[k].payload = wire[j].payload) =>
      wire[j].issued - wire[k].issued >= 15 * 20

\* the modchat levels named by the lines of the frames
GapRanks == {<<"+">>, <<"%">>, <<"x">>, <<"o", "f", "f">>}

\* msg is '(<who> set modchat to <R>)' or '|error|Modchat is already set
\* to <R>.'
IsModchatLine(msg, R) ==
  \/ \E who \in {<<"B", "o", "b">>, <<"A", "l">>} :
       msg = <<"(">> \o who \o SetModchat \o R \o <<")">>
  \/ msg = ErrModchat \o R \o <<".">>

\* the modchat flag of a room id, false while no Room is registered for it
Flag(rs, k) == k \in DOMAIN rs /\ rs[k].modchat

IsCommand(text) ==
  /\ text /= <<>>
  /\ \/ text[1] = "!"
     \/ text[1] = "/" /\ (Len(text) = 1 \/ text[2] /= "/")

C29_Shutdown ==
  [][session.cancelling =>
       /\ \A t \in DOMAIN tasks : Over(tasks[t])
       /\ UNCHANGED <<log, wire, rooms>>]_vars

\* C30: the thread that handles the signal changes neither the tasks nor
\* the queue of the loop: the step on which a signal is delivered leaves
\* them as they are.
C30_LoopThreadOnly ==
  [][session'.signals /= session.signals => UNCHANGED <<tasks, ready>>]_vars

\* C31: the socket handle of the session is set exactly while the transport
\* is open: null before the connection opens and null again once it has
\* closed.
C31_Handle == (session.websocket /= None) <=> (session.state = "open")

\* the tasks of the startup that have begun
Begun(su) == {i \in DOMAIN su.tiers : su.st[i] /= "pending"}

KnownVersion(args) ==
  \E r \in version_groups \cup versions : r[1] = to_user_id(args[2])

\* C33: a learnset command sends nothing when it has fewer than two
\* arguments or its second argument matches neither a version group nor a
\* version, and exactly one message in every other case.
C33_Learnset ==
  call.op = "learnset" =>
    LET args == Args(call.arg)
    IN IF Len(args) < 2 \/ ~KnownVersion(args)
       THEN Len(call.out) = 0
       ELSE Len(call.out) = 1

\* a learnset with a second argument that is no version has sent nothing
C33_Witness ==
  /\ call.op = "learnset"
  /\ Len(Args(call.arg)) = 2
  /\ ~KnownVersion(Args(call.arg))
  /\ call.out = <<>>

\* s occurs in msg
Contains(msg, s) == \E k \in DOMAIN msg : OccursAt(msg, s, k)

PmInfobox == <<"/", "p", "m", "i", "n", "f", "o", "b", "o", "x", " ">>

\* the version group the second argument of a learnset names
GroupOf(args) ==
  (CHOOSE r \in version_groups \cup versions : r[1] = to_user_id(args[2]))[2]

\* the lookup of the command yields data
YieldsData(c) ==
  IF c.op = "learnset"
  THEN LET args == Args(c.arg)
       IN /\ Len(args) >= 2
          /\ KnownVersion(args)
          /\ <<to_user_id(args[1]), GroupOf(args)>> \in pokemon_moves
  ELSE IF c.op = "locations"
  THEN \E r \in encounters_table : r[1] = to_user_id(c.arg)
  ELSE \E r \in encounters_table : r[2] = to_user_id(c.arg)

\* a command given in PM by a user who is in a Room where the bot is roombot
InPmWithInfobox(c) ==
  /\ c.op \in {"learnset", "locations", "encounters"}
  /\ c.room = NoRoom
  /\ c.pmroom /= NoRoom

\* one message: a '/pminfobox' for data, a message without it for none
OneMessage(c) ==
  /\ Len(c.out) = 1
  /\ YieldsData(c) <=> Contains(c.out[1], PmInfobox)

\* C34, as stated: every learnset, locations or encounters command given
\* in PM by such a user sends exactly one message, a '/pminfobox' when the
\* lookup yields data and a message that is not one when it yields none.
C34_OnePerCommand == InPmWithInfobox(call) => OneMessage(call)

\* C34, amended: the same for every locations and encounters command and
\* for every learnset command that has two arguments of which the second
\* names a version group or a version.
C34_PmInfobox ==
  (/\ InPmWithInfobox(call)
   /\ call.op = "learnset" =>
        Len(Args(call.arg)) >= 2 /\ KnownVersion(Args(call.arg)))
  => OneMessage(call)

\* a locations command in PM was answered with a '/pminfobox'
C34_Witness ==
  /\ InPmWithInfobox(call)
  /\ call.op = "locations"
  /\ YieldsData(call)
  /\ Contains(call.out[1], PmInfobox)

\* C35: the time of the last send that the session keeps never decreases,
\* whatever the interleaving of the sends.
C35_Monotone == [][lastmessage' >= lastmessage]_vars


\* the positions of a task inside Connection.send
InSend == {"send", "sleep", "write"}

\* no call of Connection.send is under way
NoSendPending == \A t \in DOMAIN tasks : tasks[t].pc \notin InSend

C37_FrameEnds ==
  /\ [](\A k \in DOMAIN log :
          log[k].ev = "raise" =>
            /\ \A j \in DOMAIN log : j > k => log[j].task /= log[k].task
            /\ \A w \in DOMAIN wire :
                 wire[w].task = log[k].task => wire[w].line <= log[k].line)
  /\ [][\A t \in DOMAIN tasks :
          /\ tasks[t].pc = "failed" => tasks'[t] = tasks[t]
          /\ tasks[t].pc /= "failed" /\ tasks'[t].pc = "failed" =>
               /\ rooms' = rooms
               /\ wire' = wire
               /\ \A u \in DOMAIN tasks \ {t} : tasks'[u] = tasks[u]]_vars

\* the handler of the second line of '>lobby', '|tournament|create|ou',
\* '(Bob set modchat to +)', ... raised: the modchat line was not scanned,
\* and a handler of the frame received after that has run to its end
C37_Witness ==
  \E t \in DOMAIN tasks :
    /\ tasks[t].message = FrameTour
    /\ tasks[t].pc = "failed"
    /\ \E k \in RaisesOf(t) : log[k].line = 2
    /\ \E u \in DOMAIN tasks : tasks[u].born = 1 /\ EndsOf(u) /= <<>>

\* C38: a moderator-gap timestamp that is set is changed by no add_user and
\* no remove_user to another time: it stays, or it is cleared by the
\* add_user of a member who is not idle and has moderator capability; a
\* remove_user of a user who is not a member changes nothing of the Room.
C38_GapKept ==
  [][/\ \A o \in DOMAIN heap :
          heap[o].no_mods_online /= None =>
            \/ heap'[o].no_mods_online = heap[o].no_mods_online
            \/ /\ heap'[o].no_mods_online = None
               /\ call'.op = "add_user"
               /\ call'.obj = o
               /\ ~idle'[call'.arg]
               /\ RankOf(heap'[o].users, call'.arg) \in DriverRanks
     /\ \A o \in DOMAIN heap :
          (/\ call'.op = "remove_user"
           /\ call' /= call
           /\ call'.obj = o
           /\ ~IsMember(heap[o].users, call'.arg))
          => heap'[o] = heap[o]]_vars

\* the gap began earlier than now, and the call just made, on a Room with a
\* member who is neither idle nor a moderator, has kept its time
C38_Witness ==
  /\ call.op \in {"add_user", "remove_user"}
  /\ call.before /= None
  /\ clock > call.before
  /\ heap[call.obj].no_mods_online = call.before
  /\ \E m \in Range(heap[call.obj].users) :
       ~idle[m[1]] /\ m[2] \notin DriverRanks

\* the positions of the calls op that use u made on the session
CallsOf(u, op) ==
  {k \in DOMAIN EventsOf(db, u) : EventsOf(db, u)[k].op = op}

TourHeads ==
  <<<<"l", "o", "b", "b", "y", "|", "/", "t", "o", "u", "r", " ", "n", "e", "w", " ">>, <<"l", "o", "b", "b", "y", "|", "/", "t", "o", "u", "r", " ", "a", "u", "t", "o", "s", "t", "a", "r", "t", " ">>, <<"l", "o", "b", "b", "y", "|", "/", "t", "o", "u", "r", " ", "a", "u", "t", "o", "d", "q", " ">>, <<"l", "o", "b", "b", "y", "|", "/", "t", "o", "u", "r", " ", "s", "c", "o", "u", "t", "i", "n", "g", " ", "o", "f", "f">>, <<"l", "o", "b", "b", "y", "|", "/", "t", "o", "u", "r", " ", "f", "o", "r", "c", "e", "t", "i", "m", "e", "r", " ", "o", "n">>, <<"l", "o", "b", "b", "y", "|", "/", "t", "o", "u", "r", " ", "r", "u", "l", "e", "s", " ">>>>

\* the position in TourHeads of the command a frame carries (0: none)
TourKind(payload) ==
  IF \E h \in DOMAIN TourHeads : OccursAt(payload, TourHeads[h], 1)
  THEN CHOOSE h \in DOMAIN TourHeads : OccursAt(payload, TourHeads[h], 1)
  ELSE 0

\* the frames task t has written, in the order of the transport
WireOf(t) == SelectSeq(wire, LAMBDA w : w.task = t)

\* the setting of position h is asked for by the arguments p
TourAsked(p, h) ==
  CASE h = 1 -> TRUE
    [] h = 2 -> p.autostart /= NoNumber
    [] h = 3 -> p.autodq /= NoNumber
    [] h = 4 -> ~p.allow_scouting
    [] h = 5 -> p.forcetimer
    [] h = 6 -> p.rules /= <<>>

\* C40: the frames a create_tour writes are '/tour new' first and then the
\* settings in the order autostart, autodq, scouting, forcetimer, rules,
\* each at most once and only when its condition holds, all of them once
\* the call is over; and a command is written to the transport before the
\* next one is issued.
C40_TourOrder ==
  \A t \in DOMAIN tasks :
    tasks[t].tour /= NoTour =>
      LET out == WireOf(t)
          p == tasks[t].tour
          kinds == [k \in DOMAIN out |-> TourKind(out[k].payload)]
          written == {kinds[k] : k \in DOMAIN out}
      IN /\ \A k \in DOMAIN out :
              /\ kinds[k] /= 0
              /\ TourAsked(p, kinds[k])
              /\ k = 1 => kinds[k] = 1
              /\ k > 1 =>
                   /\ kinds[k - 1] < kinds[k]
                   /\ out[k - 1].at <= out[k].issued
         /\ tasks[t].pc \in InSend =>
              \A h \in 1..(TourKind(tasks[t].payload) - 1) :
                TourAsked(p, h) => h \in written
         /\ tasks[t].pc = "done" =>
              \A h \in DOMAIN TourHeads : TourAsked(p, h) => h \in written

\* two tours at once: the four commands of the first are on the transport,
\* with a command of the second between two of them
C40_Witness ==
  /\ Len(tasks) = 2
  /\ tasks[1].pc = "done"
  /\ Len(WireOf(1)) = 4
  /\ \E i, j, k \in DOMAIN wire :
       /\ i < j /\ j < k
       /\ wire[i].task = 1 /\ wire[j].task = 2 /\ wire[k].task = 1
====
